---- MODULE Spec2Model ----
(***************************************************************************)
(* Verification model of the aaaaxy engine: box tracing (engine.traceBox), *)
(* level loading with warp zone pairing (level.Load) and save games        *)
(* (Level.SaveGame / Level.LoadGame).                                      *)
(***************************************************************************)
EXTENDS Integers, Naturals, Sequences, FiniteSets, TLC

VARIABLES
  \* ---- engine.traceBox ----
  tFrom,      \* the box being moved (m.Rect: Origin, Size)
  tTo,        \* the destination of the box origin (m.Pos)
  tLines,     \* the world: what traceLine yields for each sampled offset
  tPc,        \* "call" | "loop" | "done"
  tRun,       \* which evaluation of traceBox is running (1 or 2)
  tTodo,      \* map keys the range loop has not visited yet
  tBest,      \* local: best
  tHave,      \* local: haveTrace
  tResult,    \* local: result
  tReturned,  \* the TraceResult each finished evaluation returned
  \* ---- level.Load ----
  lObjects,   \* the objects of the map's object groups, in file order
  lPc,        \* "objects" | "warps" | "done"
  lNext,      \* index of the next object to read
  lWarpZones, \* local: warpZones (name -> the RawWarpZones of that name)
  lTodo,      \* names the range loop over warpZones has not visited yet
  lTiles,     \* level.tiles (index -> LevelTile)
  lResult,    \* "none" | "level" | "error" | "panic": how Load ended
  \* ---- m.Orientation ----
  oArgs,      \* the orientations a, b, c, the delta d and the tile flips
  oPc,        \* "call" | "done"
  oOut,       \* the values computed from oArgs
  \* ---- Level.SaveGame / Level.LoadGame ----
  sState,     \* EntityID -> the contents of that Spawnable's PersistentState
  sLevel,     \* the level: SaveGameVersion, Hash
  sSave,      \* the SaveGame record at hand (NoSave: none)
  sErr,       \* what the last LoadGame returned ("none" before any call)
  sCall,      \* the arguments of the last LoadGame call, as it found them
  \* ---- World.Update ----
  wTiles,     \* the positions of the tiles currently loaded
  wEntities,  \* the EntityIDs of the entities currently loaded
  wFrame,     \* what the last Update saw and did ("none" before the first)
  \* ---- ExpandImage ----
  eImg,       \* the lit pixels of img when ExpandImage is called
  eSize,      \* the argument size
  ePc,        \* "call" | "done"
  eOut,       \* the lit pixels of img when ExpandImage returns
  \* ---- package flag ----
  fArgs,      \* os.Args[1:]: flag name -> the string given for it
  fConfig,    \* what getConfig yields: an error, nil or a Config
  fValue,     \* flag name -> f.Value.String()
  fDefValue,  \* flag name -> f.DefValue
  fActual,    \* the names of the flags that have been set
  fPc,        \* "start" | "parsed" | "set" | "marshalled"
  fMarshalled, \* Config.flags of the last Marshal
  \* ---- the mobile wrapper (type game) ----
  mInited,    \* g.inited
  mDrawErr,   \* g.drawErr != nil
  mRunning,   \* the channel g.running: "open" | "closed"
  mCalls,     \* how often ebiten has called Update or Draw
  mInitEarly, \* how often game.InitEarly has been called
  mLast,      \* the last call: its operation, what it ran, how it ended
  mQuit,      \* WaitQuit has returned
  \* ---- menu.Controller ----
  cInitialized,   \* c.initialized
  cScreen,        \* c.Screen: "nil" or the menu screen shown
  cNeedReloadMap, \* c.needReloadMap
  cTimerStarted,  \* c.World.TimerStarted
  cTimerStopped,  \* c.World.TimerStopped
  cForceCredits,  \* c.World.ForceCredits
  cSaveState,     \* *saveState
  cStale,         \* the world was initialized before the last PaletteChanged
  cLast,          \* the last Controller call: what it ran and returned
  \* ---- menu.ResetScreen ----
  rItem,          \* s.Item
  rResetFrame,    \* s.ResetFrame
  rRun,           \* Updates in a row that began with ResetGame selected
  rOpen,          \* the ResetScreen is the Menu's screen
  rLast,          \* the last Update: its inputs and what it called
  \* ---- package input ----
  iState,         \* impulse name -> its ImpulseState
  iInputMap,      \* inputMap
  iFirstUpdate,   \* firstUpdate
  iLast,          \* the last call: what was pressed, the states before it
  \* ---- game.Player ----
  pY,             \* p.Entity.Rect.Origin.Y
  pOnGround,      \* p.OnGround
  pJumping,       \* p.Jumping
  pVelocity,      \* p.Velocity
  pSubPixel,      \* p.SubPixel
  pCeiling,       \* the least Y the ceiling lets the origin reach
  pDiv,           \* what m.Delta.Div does: "floor" | "truncate"
  pJump,          \* the jump in progress: how it began and went so far
  pLast,          \* the last Update: its inputs and what it did
  \* ---- game.QuestionBlock ----
  qUsed,          \* q.Used
  qPersistent,    \* q.PersistentState["used"]
  qSolid,         \* q.Entity.Solid
  qKaizo,         \* q.Kaizo
  qImage,         \* q.Entity.Image
  qFrame,         \* q.UseAnimFrame
  qY,             \* q.Entity.Rect.Origin.Y
  qPc,            \* "spawn" | "live" | "failed"
  qLast,          \* the last call, what it was given and the block before it
  \* ---- misc.MovingSprite ----
  vDespawnFadeFrames,\* s.DespawnFadeFrames
  vDespawning,    \* s.Despawning
  vFadeFrame,     \* s.FadeFrame
  vDespawns,      \* how often World.Despawn(s.Entity) has been called
  vAlpha,         \* s.Entity.Alpha as a fraction of s.Alpha
  vSince,         \* the Updates that have run with Despawning set
  vLast,          \* the last Update: what its trace hit, what it did
  \* ---- game.Checkpoint ----
  kRequired,      \* c.RequiredOrientation
  kName,          \* c.Name
  kState,         \* the player's PersistentState
  kPc,            \* "spawn" | "live" | "failed"
  kLast,          \* the last call: its inputs, the state before it
  \* ---- dumping (package aaaaxy) ----
  dFlags,         \* the dump flags of the command line
  dAudioFile,     \* dumpAudioFile: "nil" | "open"
  dVideoFile,     \* dumpVideoFile: "nil" | "open"
  dMediaCmd,      \* the package variable dumpMediaCmd: "nil" | "cmd"
  dProc,          \* the FFmpeg process: "none" | "running" | "exited" | "failed"
  dFrameCount,    \* dumpFrameCount
  dTotal,         \* the frames given to dumpFrameThenReturnTo so far
  dAudioPos,      \* the frames up to which DumpFrame was last asked to dump
  dPending,       \* dumpVideoWg: the callbacks of dumpPixelsRGBA still to run
  dPc,            \* "early" | "late" | "running" | "done" | "failed"
  dFinish,        \* how finishDumping returned
  dLast,          \* the last call
  \* ---- Palette.ToLUT (package palette) ----
  xGo,            \* the goroutines of ToLUT: state, place in the loop, elements touched
  xPc,            \* where ToLUT itself is: <<"go", phase>> | <<"alpha", i>> | ...
  xAlpha,         \* the elements of pix whose alpha ToLUT has set
  xLast           \* the last step of ToLUT itself

traceVars == <<tFrom, tTo, tLines, tPc, tRun, tTodo, tBest, tHave, tResult, tReturned>>

loadVars == <<lObjects, lPc, lNext, lWarpZones, lTodo, lTiles, lResult>>

orientVars == <<oArgs, oPc, oOut>>

saveVars == <<sState, sLevel, sSave, sErr, sCall>>

worldVars == <<wTiles, wEntities, wFrame>>

expandVars == <<eImg, eSize, ePc, eOut>>

flagVars == <<fArgs, fConfig, fValue, fDefValue, fActual, fPc, fMarshalled>>

mobileVars == <<mInited, mDrawErr, mRunning, mCalls, mInitEarly, mLast, mQuit>>

menuVars ==
  <<cInitialized, cScreen, cNeedReloadMap, cTimerStarted, cTimerStopped,
    cForceCredits, cSaveState, cStale, cLast>>

resetVars ==
  <<rItem, rResetFrame, rRun, rOpen, rLast>>

inputVars ==
  <<iState, iInputMap, iFirstUpdate, iLast>>

playerVars ==
  <<pY, pOnGround, pJumping, pVelocity, pSubPixel, pCeiling,
    pDiv, pJump, pLast>>

blockVars ==
  <<qUsed, qPersistent, qSolid, qKaizo, qImage, qFrame, qY,
    qPc, qLast>>

spriteVars ==
  <<vDespawnFadeFrames, vDespawning, vFadeFrame, vDespawns,
    vAlpha, vSince, vLast>>

checkpointVars ==
  <<kRequired, kName, kState, kPc, kLast>>

dumpVars ==
  <<dFlags, dAudioFile, dVideoFile, dMediaCmd, dProc, dFrameCount,
    dTotal, dAudioPos, dPending, dPc, dFinish, dLast>>

lutVars ==
  <<xGo, xPc, xAlpha, xLast>>

vars ==
  <<traceVars, loadVars, orientVars, saveVars, worldVars, expandVars, flagVars,
    mobileVars,
    menuVars,
    resetVars,
    inputVars,
    playerVars,
    blockVars,
    spriteVars,
    checkpointVars,
    dumpVars,
    lutVars>>

\* What each part of the program leaves alone.
nonTraceVars ==
  <<loadVars, orientVars, saveVars, worldVars, expandVars, flagVars,
    mobileVars,
    menuVars,
    resetVars,
    inputVars,
    playerVars,
    blockVars,
    spriteVars,
    checkpointVars,
    dumpVars,
    lutVars>>

nonLoadVars ==
  <<traceVars, orientVars, saveVars, worldVars, expandVars, flagVars,
    mobileVars,
    menuVars,
    resetVars,
    inputVars,
    playerVars,
    blockVars,
    spriteVars,
    checkpointVars,
    dumpVars,
    lutVars>>

nonOrientVars ==
  <<traceVars, loadVars, saveVars, worldVars, expandVars, flagVars,
    mobileVars,
    menuVars,
    resetVars,
    inputVars,
    playerVars,
    blockVars,
    spriteVars,
    checkpointVars,
    dumpVars,
    lutVars>>

nonSaveVars ==
  <<traceVars, loadVars, orientVars, worldVars, expandVars, flagVars,
    mobileVars,
    menuVars,
    resetVars,
    inputVars,
    playerVars,
    blockVars,
    spriteVars,
    checkpointVars,
    dumpVars,
    lutVars>>

nonExpandVars ==
  <<traceVars, loadVars, orientVars, saveVars, worldVars, flagVars,
    mobileVars,
    menuVars,
    resetVars,
    inputVars,
    playerVars,
    blockVars,
    spriteVars,
    checkpointVars,
    dumpVars,
    lutVars>>

nonFlagVars ==
  <<traceVars, loadVars, orientVars, saveVars, worldVars, expandVars,
    mobileVars,
    menuVars,
    resetVars,
    inputVars,
    playerVars,
    blockVars,
    spriteVars,
    checkpointVars,
    dumpVars,
    lutVars>>

nonMobileVars ==
  <<traceVars, loadVars, orientVars, saveVars, worldVars, expandVars, flagVars,
    menuVars,
    resetVars,
    inputVars,
    playerVars,
    blockVars,
    spriteVars,
    checkpointVars,
    dumpVars,
    lutVars>>

nonWorldVars ==
  <<traceVars, loadVars, orientVars, saveVars, expandVars, flagVars,
    mobileVars,
    menuVars,
    resetVars,
    inputVars,
    playerVars,
    blockVars,
    spriteVars,
    checkpointVars,
    dumpVars,
    lutVars>>

nonMenuVars ==
  <<traceVars, loadVars, orientVars, saveVars, worldVars, expandVars,
    flagVars, mobileVars,
    resetVars,
    inputVars,
    playerVars,
    blockVars,
    spriteVars,
    checkpointVars,
    dumpVars,
    lutVars>>

nonResetVars ==
  <<traceVars, loadVars, orientVars, saveVars, worldVars, expandVars,
    flagVars, mobileVars, menuVars,
    inputVars,
    playerVars,
    blockVars,
    spriteVars,
    checkpointVars,
    dumpVars,
    lutVars>>

nonInputVars ==
  <<traceVars, loadVars, orientVars, saveVars, worldVars, expandVars,
    flagVars, mobileVars, menuVars, resetVars,
    playerVars,
    blockVars,
    spriteVars,
    checkpointVars,
    dumpVars,
    lutVars>>

nonPlayerVars ==
  <<traceVars, loadVars, orientVars, saveVars, worldVars, expandVars,
    flagVars, mobileVars, menuVars, resetVars, inputVars,
    blockVars,
    spriteVars,
    checkpointVars,
    dumpVars,
    lutVars>>

nonBlockVars ==
  <<traceVars, loadVars, orientVars, saveVars, worldVars, expandVars,
    flagVars, mobileVars, menuVars, resetVars, inputVars, playerVars,
    spriteVars,
    checkpointVars,
    dumpVars,
    lutVars>>

nonSpriteVars ==
  <<traceVars, loadVars, orientVars, saveVars, worldVars, expandVars,
    flagVars, mobileVars, menuVars, resetVars, inputVars, playerVars,
    blockVars,
    checkpointVars,
    dumpVars,
    lutVars>>

nonCheckpointVars ==
  <<traceVars, loadVars, orientVars, saveVars, worldVars, expandVars,
    flagVars, mobileVars, menuVars, resetVars, inputVars, playerVars,
    blockVars, spriteVars,
    dumpVars,
    lutVars>>

nonDumpVars ==
  <<traceVars, loadVars, orientVars, saveVars, worldVars, expandVars,
    flagVars, mobileVars, menuVars, resetVars, inputVars, playerVars,
    blockVars, spriteVars, checkpointVars,
    lutVars>>

nonLutVars ==
  <<traceVars, loadVars, orientVars, saveVars, worldVars, expandVars,
    flagVars, mobileVars, menuVars, resetVars, inputVars, playerVars,
    blockVars, spriteVars, checkpointVars, dumpVars>>

Nil == "nil"

\* A nil *Entity; entities are numbered from 1.
NoEntity == 0

-----------------------------------------------------------------------------
(* m.Pos / m.Delta arithmetic.                                             *)

Pos(x, y) == [X |-> x, Y |-> y]

Delta(dx, dy) == [DX |-> dx, DY |-> dy]

\* p.Add(d)
PosAdd(p, d) == [X |-> p.X + d.DX, Y |-> p.Y + d.DY]

\* p.Sub(d)
PosSub(p, d) == [X |-> p.X - d.DX, Y |-> p.Y - d.DY]

\* p.Delta(q): the delta that leads from q to p
PosDelta(p, q) == [DX |-> p.X - q.X, DY |-> p.Y - q.Y]

\* p.Mul(n)
PosMul(p, n) == [X |-> p.X * n, Y |-> p.Y * n]

\* p.Div(n)
PosDiv(p, n) == [X |-> p.X \div n, Y |-> p.Y \div n]

\* d.Add(e)
DeltaAdd(d, e) == [DX |-> d.DX + e.DX, DY |-> d.DY + e.DY]

\* d.Sub(e)
DeltaSub(d, e) == [DX |-> d.DX - e.DX, DY |-> d.DY - e.DY]

\* d.Mul(n)
DeltaMul(d, n) == [DX |-> d.DX * n, DY |-> d.DY * n]

\* d.Div(n)
DeltaDiv(d, n) == [DX |-> d.DX \div n, DY |-> d.DY \div n]

Abs(n) == IF n < 0 THEN 0 - n ELSE n

\* d.Norm1()
Norm1(d) == Abs(d.DX) + Abs(d.DY)

-----------------------------------------------------------------------------
(* engine constants                                                        *)

MinEntitySize == 8

-----------------------------------------------------------------------------
(* Bounds of the trace model.                                              *)

\* Longest move of the box, in steps of the direction of travel.
MaxMove == 2

\* The entities a line trace can hit.
TraceEntities == {1, 2}

\* Directions of travel (per-axis sign of the move).
TraceDirs == {Delta(1, 0), Delta(-1, 1), Delta(0, -1)}

\* Sizes of the boxes moved.
BoxSizes == {Delta(1, 1), Delta(1, 9), Delta(9, 9), Delta(17, 1)}

\* Origins of the boxes moved.
BoxOrigins == {Pos(5, -3)}

-----------------------------------------------------------------------------
(* engine.traceBox                                                         *)

\* appendLineToTraces: the offsets it adds for the edge start..end
AppendLineToTraces(start, end) ==
  LET delta == DeltaSub(end, start)
      length == Norm1(delta)
  IN {start}
       \cup {DeltaAdd(start, DeltaDiv(DeltaMul(delta, i), length)) :
               i \in {j \in 1..(length - 1) : j % MinEntitySize = 0}}
       \cup {end}

\* The keys of the traces map traceBox builds for a move of from to to.
TracesOf(from, to) ==
  LET delta == PosDelta(to, from.Origin)
      sx == from.Size.DX
      sy == from.Size.DY
  IN (IF delta.DX < 0
        THEN AppendLineToTraces(Delta(0, 0), Delta(0, sy - 1))
        ELSE AppendLineToTraces(Delta(sx - 1, 0), Delta(sx - 1, sy - 1)))
     \cup
     (IF delta.DY < 0
        THEN AppendLineToTraces(Delta(0, 0), Delta(sx - 1, 0))
        ELSE AppendLineToTraces(Delta(0, sy - 1), Delta(sx - 1, sy - 1)))

\* var result TraceResult
ZeroTraceResult ==
  [EndPos |-> Pos(0, 0), HitTilePos |-> Pos(0, 0), HitTile |-> Nil,
   HitEntity |-> NoEntity, HitFogOfWar |-> FALSE]

\* The end of a line trace, expressed as a position of the box origin.
AdjustedEnd(trace, delta) == PosSub(trace.EndPos, delta)

\* Faulty variant: the bonus goes to the traces that hit no entity.
ScorePreferringNonHits(from, trace, delta) ==
  Norm1(PosDelta(AdjustedEnd(trace, delta), from.Origin)) * 2
    + (IF trace.HitEntity = NoEntity THEN 0 ELSE 1)

\* Faulty variant: the end of the trace is not shifted back by its offset.
ScoreOfEndPos(from, trace, delta) ==
  Norm1(PosDelta(trace.EndPos, from.Origin)) * 2
    + (IF trace.HitEntity = NoEntity THEN 1 ELSE 0)

\* score := adjustedEnd.Delta(from.Origin).Norm1() * 2; if no entity: score++
Score(from, trace, delta) ==
  Norm1(PosDelta(AdjustedEnd(trace, delta), from.Origin)) * 2
    + (IF trace.HitEntity = NoEntity THEN 1 ELSE 0)

\* What can stop a line trace before its destination, and after how many
\* steps: an entity, a solid tile or unloaded territory (fog of war).
TraceStops ==
  {[Steps |-> k, Entity |-> e, Tile |-> Nil, Fog |-> FALSE] :
     k \in 0..MaxMove, e \in TraceEntities}
  \cup {[Steps |-> k, Entity |-> NoEntity, Tile |-> "solid", Fog |-> FALSE] :
          k \in 0..MaxMove}
  \cup {[Steps |-> k, Entity |-> NoEntity, Tile |-> Nil, Fog |-> TRUE] :
          k \in 0..MaxMove}
  \cup {[Steps |-> MaxMove, Entity |-> NoEntity, Tile |-> Nil, Fog |-> FALSE]}

\* What traceLine(from.Origin + delta, to + delta) yields when the world
\* stops it as stop says: it ends where it was stopped, or at its
\* destination when nothing is hit.
TraceLine(from, dir, delta, stop) ==
  LET start == PosAdd(from.Origin, delta)
      end == PosAdd(start, DeltaMul(dir, stop.Steps))
  IN [EndPos |-> end,
      HitTilePos |-> IF stop.Tile = Nil THEN Pos(0, 0) ELSE PosAdd(end, dir),
      HitTile |-> stop.Tile,
      HitEntity |-> stop.Entity,
      HitFogOfWar |-> stop.Fog]

TraceInit ==
  /\ \E o \in BoxOrigins, s \in BoxSizes, dir \in TraceDirs :
       LET from == [Origin |-> o, Size |-> s]
           to == PosAdd(o, DeltaMul(dir, MaxMove))
       IN /\ tFrom = from
          /\ tTo = to
          /\ \E world \in [TracesOf(from, to) -> TraceStops] :
               tLines = [d \in TracesOf(from, to) |->
                           TraceLine(from, dir, d, world[d])]
  /\ tPc = "call"
  /\ tRun = 1
  /\ tTodo = {}
  /\ tBest = 0
  /\ tHave = FALSE
  /\ tResult = ZeroTraceResult
  /\ tReturned = <<>>

\* traceBox is entered: the traces map is built, the locals are declared.
TraceBoxCall ==
  /\ tPc = "call"
  /\ tTodo' = TracesOf(tFrom, tTo)
  /\ tBest' = 0
  /\ tHave' = FALSE
  /\ tResult' = ZeroTraceResult
  /\ tPc' = "loop"
  /\ UNCHANGED <<tFrom, tTo, tLines, tRun, tReturned>>
  /\ UNCHANGED nonTraceVars

\* One iteration of "for delta := range traces": Go visits the keys of a
\* map in an unspecified order, each key once.
TraceBoxIter ==
  /\ tPc = "loop"
  /\ \E delta \in tTodo :
       LET trace == tLines[delta]
           adjustedEnd == AdjustedEnd(trace, delta)
           score == Score(tFrom, trace, delta)
       IN /\ tTodo' = tTodo \ {delta}
          /\ IF ~tHave \/ score < tBest
               THEN /\ tBest' = score
                    /\ tHave' = TRUE
                    /\ tResult' = [EndPos |-> adjustedEnd,
                                   HitTilePos |-> trace.HitTilePos,
                                   HitTile |-> trace.HitTile,
                                   HitEntity |-> trace.HitEntity,
                                   HitFogOfWar |-> trace.HitFogOfWar]
               ELSE UNCHANGED <<tBest, tHave, tResult>>
  /\ UNCHANGED <<tFrom, tTo, tLines, tPc, tRun, tReturned>>
  /\ UNCHANGED nonTraceVars

\* The loop is over: return result. The same call is then evaluated once
\* more in the same world.
TraceBoxReturn ==
  /\ tPc = "loop"
  /\ tTodo = {}
  /\ tReturned' = Append(tReturned, tResult)
  /\ IF tRun = 1
       THEN tRun' = 2 /\ tPc' = "call"
       ELSE tRun' = tRun /\ tPc' = "done"
  /\ UNCHANGED <<tFrom, tTo, tLines, tTodo, tBest, tHave, tResult>>
  /\ UNCHANGED nonTraceVars

TraceNext == TraceBoxCall \/ TraceBoxIter \/ TraceBoxReturn


-----------------------------------------------------------------------------
(* m.Orientation: a linear map given by the images of the unit vectors     *)
(* right and down.                                                         *)

East == Delta(1, 0)

West == Delta(-1, 0)

South == Delta(0, 1)

North == Delta(0, -1)

Identity == [Right |-> East, Down |-> South]

FlipX == [Right |-> West, Down |-> South]

FlipY == [Right |-> East, Down |-> North]

FlipD == [Right |-> South, Down |-> East]

Rotate180 == [Right |-> West, Down |-> North]

\* The eight orientations.
AllOrientations ==
  {[Right |-> r, Down |-> d] :
     <<r, d>> \in {<<East, South>>, <<East, North>>, <<West, South>>,
                   <<West, North>>, <<South, East>>, <<South, West>>,
                   <<North, East>>, <<North, West>>}}

\* o.Apply(d)
Apply(o, d) ==
  [DX |-> o.Right.DX * d.DX + o.Down.DX * d.DY,
   DY |-> o.Right.DY * d.DX + o.Down.DY * d.DY]

\* o.Concat(o2): the matrix product o * o2
Concat(o, o2) ==
  [Right |-> Apply(o, o2.Right), Down |-> Apply(o, o2.Down)]

\* Faulty variant: every orientation is taken to be its own inverse.
InverseIsSelf(o) == o

\* o.Inverse(): the transposed matrix
Inverse(o) ==
  [Right |-> Delta(o.Right.DX, o.Down.DX),
   Down |-> Delta(o.Right.DY, o.Down.DY)]

-----------------------------------------------------------------------------
(* level.Load: objects, warp zone pairing, warp edges.                     *)

TileSize == 16

\* Bounds of the level model: the size of the tile layer and the largest
\* extent (in tiles) of a warp zone rectangle.
LevelWidth == 14

LevelHeight == 9

MaxExtent == 2

TileIndices == 0..(LevelWidth * LevelHeight - 1)

\* Tiles of the layer that are empty (td.Nil): they stay invalid.
NilTiles == {Pos(0, 0)}

\* i := pos.X + pos.Y*l.width
TileIndex(pos) == pos.X + pos.Y * LevelWidth

\* Level.Tile(pos): "panic" when the index is outside the slice (Go's
\* index out of range), "nil" for an invalid tile, else "ok".
TileLookup(tiles, pos) ==
  IF TileIndex(pos) \notin DOMAIN tiles THEN "panic"
  ELSE IF ~tiles[TileIndex(pos)].Valid THEN "nil"
  ELSE "ok"

\* level.tiles after the tile layer has been read.
InitialTiles ==
  [i \in TileIndices |->
     [Valid |-> (Pos(i % LevelWidth, i \div LevelWidth) \notin NilTiles),
      WarpZones |-> <<>>,
      Spawnables |-> <<>>]]

\* r.OppositeCorner()
OppositeCorner(r) == PosAdd(r.Origin, Delta(r.Size.DX - 1, r.Size.DY - 1))

\* startTile := entRect.Origin.Div(TileSize)
StartTile(entRect) == PosDiv(entRect.Origin, TileSize)

\* endTile := entRect.OppositeCorner().Div(TileSize)
EndTile(entRect) == PosDiv(OppositeCorner(entRect), TileSize)

\* The tiles start..end in the order of the loops "for y ... for x ...".
CellsOf(start, end) ==
  LET w == end.X - start.X + 1
      h == end.Y - start.Y + 1
  IN IF w <= 0 \/ h <= 0 THEN <<>>
     ELSE [k \in 1..(w * h) |->
             Pos(start.X + ((k - 1) % w), start.Y + ((k - 1) \div w))]

\* Faulty variant: from's inverse is forgotten.
WarpTransformNoInverse(from, to) ==
  Concat(Concat(to.Orientation, FlipX), from.Orientation)

\* Faulty variant: the flip of the walking direction is forgotten.
WarpTransformNoFlip(from, to) ==
  Concat(to.Orientation, Inverse(from.Orientation))

\* transform := to.Orientation.Concat(m.FlipX()).Concat(from.Orientation.Inverse())
WarpTransform(from, to) ==
  Concat(Concat(to.Orientation, FlipX), Inverse(from.Orientation))

\* Faulty variant: the tile before the warp is taken on its far side.
PrevPosBehind(from, fromPos) ==
  PosAdd(fromPos, Apply(from.Orientation, East))

\* prevPos := fromPos.Add(from.Orientation.Apply(m.West()))
PrevPos(from, fromPos) ==
  PosAdd(fromPos, Apply(from.Orientation, West))

\* toPos for the cell fromPos of from, as the inner loop computes it.
ToPos(from, to, fromPos) ==
  LET transform == WarpTransform(from, to)
      fromCenter2 == PosAdd(from.StartTile, PosDelta(from.EndTile, Pos(0, 0)))
      toCenter2 == PosAdd(to.StartTile, PosDelta(to.EndTile, Pos(0, 0)))
      fromPos2 == PosAdd(fromPos, PosDelta(fromPos, Pos(0, 0)))
      toPos2 == PosAdd(toCenter2, Apply(transform, PosDelta(fromPos2, fromCenter2)))
  IN PosAdd(PosDiv(toPos2, 2), Apply(to.Orientation, West))

\* The WarpZone the inner loop appends to the tile at fromPos.
WarpEdge(name, from, to, fromPos) ==
  [Name |-> name,
   InitialState |-> from.InitialState,
   PrevTile |-> PrevPos(from, fromPos),
   ToTile |-> ToPos(from, to, fromPos),
   Transform |-> WarpTransform(from, to)]

\* The iterations of the two inner loops for the leg from -> to, in order.
LegSteps(name, from, to) ==
  LET cells == CellsOf(from.StartTile, from.EndTile)
  IN [k \in DOMAIN cells |->
        [FromPos |-> cells[k], Edge |-> WarpEdge(name, from, to, cells[k])]]

\* for a := 0; a < 2; a++: both legs of a pair
PairSteps(name, warppair) ==
  LegSteps(name, warppair[1], warppair[2]) \o LegSteps(name, warppair[2], warppair[1])

\* An iteration panics: level.Tile(fromPos) or level.Tile(toPos) is nil
\* (log.Panicf) or indexes outside level.tiles.
StepPanics(tiles, step) ==
  \/ TileLookup(tiles, step.FromPos) # "ok"
  \/ TileLookup(tiles, step.Edge.ToTile) # "ok"

RECURSIVE AppendEdges(_, _, _)
\* levelTile.WarpZones = append(levelTile.WarpZones, &WarpZone{...}), for
\* the iterations k.. of steps
AppendEdges(tiles, steps, k) ==
  IF k > Len(steps) THEN tiles
  ELSE LET i == TileIndex(steps[k].FromPos)
       IN AppendEdges(
            [tiles EXCEPT ![i].WarpZones = Append(@, steps[k].Edge)], steps, k + 1)

RECURSIVE LinkSpawnable(_, _, _, _)
\* levelTile.Tile.Spawnables = append(..., &ent) for the tiles k.. of cells
LinkSpawnable(tiles, cells, k, id) ==
  IF k > Len(cells) THEN tiles
  ELSE LinkSpawnable(
         [tiles EXCEPT ![TileIndex(cells[k])].Spawnables = Append(@, id)],
         cells, k + 1, id)

\* An object of the map whose rectangle covers the tiles at..at+size-1.
Object(type, name, at, size, orientation) ==
  [Type |-> type, Name |-> name,
   Rect |-> [Origin |-> PosMul(at, TileSize), Size |-> DeltaMul(size, TileSize)],
   Orientation |-> orientation, InitialState |-> TRUE]

Extents == {Delta(w, h) : w, h \in 1..MaxExtent}

\* Where the warp zones named "A" lie: the first, the second, the third.
AnchorA == <<Pos(5, 5), Pos(10, 5), Pos(2, 2)>>

\* The WarpZone objects named "A" of a map: none to three of them, the
\* first two with the given extents and orientations.
ZonesA(extents, orientations) ==
  {<<>>}
  \cup {<<Object("WarpZone", "A", AnchorA[1], s1, o1)>> :
          s1 \in extents, o1 \in orientations}
  \cup {<<Object("WarpZone", "A", AnchorA[1], s1, o1),
          Object("WarpZone", "A", AnchorA[2], s2, o2)>> :
          s1 \in extents, o1 \in orientations,
          s2 \in extents, o2 \in orientations}
  \cup {<<Object("WarpZone", "A", AnchorA[1], s1, o1),
          Object("WarpZone", "A", AnchorA[2], s2, o2),
          Object("WarpZone", "A", AnchorA[3], Delta(1, 1), Identity)>> :
          s1 \in extents, o1 \in orientations,
          s2 \in extents, o2 \in orientations}

\* The other objects of a map: nothing, a lone or paired warp zone "B" (in
\* the map or on the empty tile), a sprite in the map, on the empty tile,
\* right of the last column or below the last row.
OtherObjects ==
  {<<>>,
   <<Object("WarpZone", "B", Pos(2, 3), Delta(1, 1), Identity)>>,
   <<Object("WarpZone", "B", Pos(2, 3), Delta(1, 1), Identity),
     Object("WarpZone", "B", Pos(3, 7), Delta(1, 1), FlipD)>>,
   <<Object("WarpZone", "B", Pos(0, 0), Delta(1, 1), Identity),
     Object("WarpZone", "B", Pos(3, 7), Delta(1, 1), Identity)>>,
   <<Object("Sprite", "", Pos(1, 1), Delta(2, 1), Identity)>>,
   <<Object("Sprite", "", Pos(0, 0), Delta(1, 1), Identity)>>,
   <<Object("Sprite", "", Pos(LevelWidth, 1), Delta(1, 1), Identity)>>,
   <<Object("Sprite", "", Pos(1, LevelHeight), Delta(1, 1), Identity)>>}

LoadInit ==
  /\ \/ lObjects \in ZonesA(Extents, AllOrientations)
     \/ \E za \in ZonesA({Delta(1, 1)}, {Identity, Rotate180}),
           other \in OtherObjects : lObjects = za \o other
  /\ lPc = "objects"
  /\ lNext = 1
  /\ lWarpZones = [n \in {} |-> <<>>]
  /\ lTodo = {}
  /\ lTiles = InitialTiles
  /\ lResult = "none"

\* One iteration of "for _, o := range og.Objects": a WarpZone is collected
\* under its name, any other entity is linked to the tiles it covers.
LoadObject ==
  /\ lPc = "objects"
  /\ lNext <= Len(lObjects)
  /\ LET o == lObjects[lNext]
         startTile == StartTile(o.Rect)
         endTile == EndTile(o.Rect)
         cells == CellsOf(startTile, endTile)
     IN IF o.Type = "WarpZone"
          THEN /\ lWarpZones' =
                    [n \in DOMAIN lWarpZones \cup {o.Name} |->
                       (IF n \in DOMAIN lWarpZones THEN lWarpZones[n] ELSE <<>>)
                         \o (IF n = o.Name
                               THEN <<[StartTile |-> startTile,
                                       EndTile |-> endTile,
                                       Orientation |-> o.Orientation,
                                       InitialState |-> o.InitialState]>>
                               ELSE <<>>)]
               /\ lNext' = lNext + 1
               /\ UNCHANGED <<lPc, lTiles, lResult>>
          ELSE IF \E k \in DOMAIN cells : TileLookup(lTiles, cells[k]) # "ok"
            THEN /\ lResult' = "panic"
                 /\ lPc' = "done"
                 /\ UNCHANGED <<lNext, lWarpZones, lTiles>>
            ELSE /\ lTiles' = LinkSpawnable(lTiles, cells, 1, lNext)
                 /\ lNext' = lNext + 1
                 /\ UNCHANGED <<lPc, lWarpZones, lResult>>
  /\ UNCHANGED <<lObjects, lTodo>>
  /\ UNCHANGED nonLoadVars

\* All objects are read: "for warpname, warppair := range warpZones" starts.
LoadObjectsDone ==
  /\ lPc = "objects"
  /\ lNext > Len(lObjects)
  /\ lPc' = "warps"
  /\ lTodo' = DOMAIN lWarpZones
  /\ UNCHANGED <<lObjects, lNext, lWarpZones, lTiles, lResult>>
  /\ UNCHANGED nonLoadVars

\* One iteration of the range loop over the map warpZones (Go visits the
\* names in an unspecified order): the pairing check, then the edges of
\* both legs.
LoadWarpPair ==
  /\ lPc = "warps"
  /\ \E warpname \in lTodo :
       LET warppair == lWarpZones[warpname]
       IN IF Len(warppair) # 2
            THEN /\ lResult' = "error"
                 /\ lPc' = "done"
                 /\ UNCHANGED <<lTodo, lTiles>>
            ELSE LET steps == PairSteps(warpname, warppair)
                 IN IF \E k \in DOMAIN steps : StepPanics(lTiles, steps[k])
                      THEN /\ lResult' = "panic"
                           /\ lPc' = "done"
                           /\ UNCHANGED <<lTodo, lTiles>>
                      ELSE /\ lTiles' = AppendEdges(lTiles, steps, 1)
                           /\ lTodo' = lTodo \ {warpname}
                           /\ UNCHANGED <<lPc, lResult>>
  /\ UNCHANGED <<lObjects, lNext, lWarpZones>>
  /\ UNCHANGED nonLoadVars

\* return &level, nil
LoadReturn ==
  /\ lPc = "warps"
  /\ lTodo = {}
  /\ lResult' = "level"
  /\ lPc' = "done"
  /\ UNCHANGED <<lObjects, lNext, lWarpZones, lTodo, lTiles>>
  /\ UNCHANGED nonLoadVars

LoadNext == LoadObject \/ LoadObjectsDone \/ LoadWarpPair \/ LoadReturn

\* Load is not running.
LoadIdle ==
  /\ lObjects = <<>>
  /\ lPc = "done"
  /\ lNext = 1
  /\ lWarpZones = [n \in {} |-> <<>>]
  /\ lTodo = {}
  /\ lTiles = <<>>
  /\ lResult = "none"

\* traceBox is not running.
TraceIdle ==
  /\ tFrom = [Origin |-> Pos(0, 0), Size |-> Delta(1, 1)]
  /\ tTo = Pos(0, 0)
  /\ tLines = <<>>
  /\ tPc = "done"
  /\ tRun = 1
  /\ tTodo = {}
  /\ tBest = 0
  /\ tHave = FALSE
  /\ tResult = ZeroTraceResult
  /\ tReturned = <<>>

-----------------------------------------------------------------------------
(* Orientations as Load composes them.                                     *)

\* Largest coordinate of the deltas orientations are applied to.
MaxDelta == 1

\* The orientation of a tile of the layer, from its three flip flags.
TileOrientation(flips) ==
  LET o0 == Identity
      o1 == IF flips.Horizontally THEN Concat(FlipX, o0) ELSE o0
      o2 == IF flips.Vertically THEN Concat(FlipY, o1) ELSE o1
  IN IF flips.Diagonally THEN Concat(FlipD, o2) ELSE o2

OrientInit ==
  /\ oArgs \in [a : AllOrientations, b : AllOrientations, c : AllOrientations,
                d : {Delta(x, y) : x, y \in (0 - MaxDelta)..MaxDelta},
                flips : [Horizontally : BOOLEAN, Vertically : BOOLEAN,
                         Diagonally : BOOLEAN]]
  /\ oPc = "call"
  /\ oOut = <<>>

\* The operations of m.Orientation are applied to the arguments.
OrientApply ==
  /\ oPc = "call"
  /\ oOut' = [ab |-> Concat(oArgs.a, oArgs.b),
              ab_c |-> Concat(Concat(oArgs.a, oArgs.b), oArgs.c),
              a_bc |-> Concat(oArgs.a, Concat(oArgs.b, oArgs.c)),
              a_id |-> Concat(oArgs.a, Identity),
              id_a |-> Concat(Identity, oArgs.a),
              a_inv |-> Concat(oArgs.a, Inverse(oArgs.a)),
              id_d |-> Apply(Identity, oArgs.d),
              tile |-> TileOrientation(oArgs.flips)]
  /\ oPc' = "done"
  /\ UNCHANGED oArgs
  /\ UNCHANGED nonOrientVars

OrientNext == OrientApply

OrientIdle ==
  /\ oArgs = <<>>
  /\ oPc = "idle"
  /\ oOut = <<>>

-----------------------------------------------------------------------------
(* Level.SaveGame and Level.LoadGame.                                      *)

\* Bounds of the save game model: the highest save_game_version and the
\* range of the checksum.
MaxVersion == 2

HashModulus == 16

\* EntityIDs: 1 is a spawnable linked to a tile, 2 is the player.
EntityIDs == {1, 2}

StateKeys == {"used"}

StateValues == {"true", "false"}

\* The values a PersistentState (map[string]string) can have.
PersistentStates ==
  UNION {[ks -> StateValues] : ks \in SUBSET StateKeys}

EmptyState == [k \in {} |-> "true"]

LevelHashes == {5, 6}

NoSave == [None |-> TRUE]

\* An entry of SaveGame.State that is the Spawnable's own map (SaveGame
\* stores the map itself, not a copy).
Alias(id) == [Alias |-> id]

IsAlias(entry) == "Alias" \in DOMAIN entry

\* What an entry of SaveGame.State holds now.
Contents(state, entry) == IF IsAlias(entry) THEN state[entry.Alias] ELSE entry

\* save.SaveGameData with every map replaced by its contents.
SaveData(state, save) ==
  [State |-> [id \in DOMAIN save.State |-> Contents(state, save.State[id])],
   LevelVersion |-> save.LevelVersion,
   LevelHash |-> save.LevelHash]

StrCode(str) ==
  CASE str = "used" -> 3 [] str = "true" -> 5 [] str = "false" -> 7 [] OTHER -> 1

RECURSIVE SumOver(_, _)
SumOver(f, todo) ==
  IF todo = {} THEN 0
  ELSE LET x == CHOOSE y \in todo : TRUE IN f[x] + SumOver(f, todo \ {x})

\* hashstructure.Hash(save.SaveGameData, hashstructure.FormatV2, nil): a
\* checksum of the version, the level hash and every entry of State.
HashData(data) ==
  LET entry == [id \in DOMAIN data.State |->
                  11 * id + SumOver([k \in DOMAIN data.State[id] |->
                                       StrCode(k) * StrCode(data.State[id][k])],
                                    DOMAIN data.State[id])]
  IN (13 * data.LevelVersion + 3 * data.LevelHash + SumOver(entry, DOMAIN entry))
       % HashModulus

Levels == [SaveGameVersion : 1..MaxVersion, Hash : LevelHashes]

SaveInit ==
  /\ sState = [id \in EntityIDs |-> EmptyState]
  /\ sLevel \in Levels
  /\ sSave = NoSave
  /\ sErr = "none"
  /\ sCall = NoSave

\* An entity changes its PersistentState (a key is set or deleted).
SetPersistentState ==
  /\ sCall = NoSave
  /\ \E id \in EntityIDs, ps \in PersistentStates :
       /\ ps # sState[id]
       /\ sState' = [sState EXCEPT ![id] = ps]
  /\ UNCHANGED <<sLevel, sSave, sErr, sCall>>
  /\ UNCHANGED nonSaveVars

\* The PersistentStates at the time of SaveGame are kept with the record
\* as long as it is the value SaveGame returned; a record read back from
\* storage carries none.
NoSnapshot == [id \in {} |-> EmptyState]

\* Level.SaveGame: the State holds the map of every spawnable (and of the
\* player) whose PersistentState is not empty.
SaveGame ==
  /\ sCall = NoSave
  /\ LET save == [State |-> [id \in {i \in EntityIDs : sState[i] # EmptyState} |->
                               Alias(id)],
                  LevelVersion |-> sLevel.SaveGameVersion,
                  LevelHash |-> sLevel.Hash]
     IN sSave' = [State |-> save.State,
                  LevelVersion |-> save.LevelVersion,
                  LevelHash |-> save.LevelHash,
                  Hash |-> HashData(SaveData(sState, save)),
                  At |-> sState]
  /\ UNCHANGED <<sState, sLevel, sErr, sCall>>
  /\ UNCHANGED nonSaveVars

\* The record is written to a file and read back: its maps are now copies.
StoreAndReload ==
  /\ sCall = NoSave
  /\ sSave # NoSave
  /\ \E id \in DOMAIN sSave.State : IsAlias(sSave.State[id])
  /\ sSave' = [sSave EXCEPT !.State = SaveData(sState, sSave).State,
                            !.At = NoSnapshot]
  /\ UNCHANGED <<sState, sLevel, sErr, sCall>>
  /\ UNCHANGED nonSaveVars

StoredSave == sSave # NoSave /\ \A id \in DOMAIN sSave.State : ~IsAlias(sSave.State[id])

\* Someone edits the stored record: a state entry, the level version, the
\* level hash or the checksum.
TamperState ==
  /\ sCall = NoSave
  /\ StoredSave
  /\ \E id \in EntityIDs, ps \in PersistentStates :
       sSave' = [sSave EXCEPT !.State =
                   [i \in DOMAIN sSave.State \cup {id} |->
                      IF i = id THEN ps ELSE sSave.State[i]],
                              !.At = NoSnapshot]
  /\ sSave' # sSave
  /\ UNCHANGED <<sState, sLevel, sErr, sCall>>
  /\ UNCHANGED nonSaveVars

TamperHeader ==
  /\ sCall = NoSave
  /\ StoredSave
  /\ \/ \E v \in 1..MaxVersion :
          sSave' = [sSave EXCEPT !.LevelVersion = v, !.At = NoSnapshot]
     \/ \E h \in LevelHashes :
          sSave' = [sSave EXCEPT !.LevelHash = h, !.At = NoSnapshot]
  /\ sSave' # sSave
  /\ UNCHANGED <<sState, sLevel, sErr, sCall>>
  /\ UNCHANGED nonSaveVars

TamperChecksum ==
  /\ sCall = NoSave
  /\ StoredSave
  /\ \/ sSave' = [sSave EXCEPT !.Hash = (@ + 1) % HashModulus,
                                !.At = NoSnapshot]
     \/ sSave' = [sSave EXCEPT !.Hash = HashData(SaveData(sState, sSave)),
                                !.At = NoSnapshot]
  /\ sSave' # sSave
  /\ UNCHANGED <<sState, sLevel, sErr, sCall>>
  /\ UNCHANGED nonSaveVars

\* Another revision of the level is loaded.
LevelRevision ==
  /\ sCall = NoSave
  /\ \E l \in Levels : l # sLevel /\ sLevel' = l
  /\ UNCHANGED <<sState, sSave, sErr, sCall>>
  /\ UNCHANGED nonSaveVars

\* Faulty variant: a save of another level hash is rejected too.
LoadGameErrorOnLevelHash(state, level, save) ==
  IF HashData(SaveData(state, save)) # save.Hash THEN "tampered"
  ELSE IF save.LevelVersion # level.SaveGameVersion THEN "version"
  ELSE IF save.LevelHash # level.Hash THEN "version"
  ELSE "nil"

\* The error LoadGame returns: the checks before loadOne.
LoadGameError(state, level, save) ==
  IF HashData(SaveData(state, save)) # save.Hash THEN "tampered"
  ELSE IF save.LevelVersion # level.SaveGameVersion THEN "version"
  ELSE "nil"

\* loadOne(s): every key of s.PersistentState is deleted, then the entries
\* of save.State[s.ID] are copied into it. When save.State[s.ID] is that
\* very map it is empty by then.
LoadOne(save, id) ==
  IF id \notin DOMAIN save.State THEN EmptyState
  ELSE IF IsAlias(save.State[id]) THEN EmptyState
  ELSE save.State[id]

\* Faulty variant: the entities are loaded before the checks.
LoadGameStateUnchecked(state, level, save) ==
  [id \in EntityIDs |-> LoadOne(save, id)]

\* The PersistentStates when LoadGame returns: loadOne has run over every
\* spawnable and the player unless a check returned an error before.
LoadGameState(state, level, save) ==
  IF LoadGameError(state, level, save) = "nil"
    THEN [id \in EntityIDs |-> LoadOne(save, id)]
    ELSE state

\* Level.LoadGame(save)
LoadGame ==
  /\ sCall = NoSave
  /\ sSave # NoSave
  /\ sCall' = [Data |-> SaveData(sState, sSave), Hash |-> sSave.Hash,
               Level |-> sLevel, Stored |-> StoredSave, Before |-> sState,
               At |-> sSave.At]
  /\ sErr' = LoadGameError(sState, sLevel, sSave)
  /\ sState' = LoadGameState(sState, sLevel, sSave)
  /\ UNCHANGED <<sLevel, sSave>>
  /\ UNCHANGED nonSaveVars

\* The caller has looked at what LoadGame returned; the game goes on.
AfterLoadGame ==
  /\ sCall # NoSave
  /\ sCall' = NoSave
  /\ sErr' = "none"
  /\ UNCHANGED <<sState, sLevel, sSave>>
  /\ UNCHANGED nonSaveVars

SaveNext ==
  \/ SetPersistentState
  \/ SaveGame
  \/ StoreAndReload
  \/ TamperState
  \/ TamperHeader
  \/ TamperChecksum
  \/ LevelRevision
  \/ LoadGame
  \/ AfterLoadGame

SaveIdle ==
  /\ sState = <<>>
  /\ sLevel = <<>>
  /\ sSave = NoSave
  /\ sErr = "none"
  /\ sCall = NoSave

-----------------------------------------------------------------------------
(* World.Update: the tiles and entities loaded after each frame.           *)

ExpandSize == 6

BlurSize == 6

SweepStep == 4

\* The number of tiles beyond the tiles hit by a trace that get loaded.
ExpandTiles == (ExpandSize + BlurSize + SweepStep + TileSize - 1) \div TileSize

\* The steps to walk from each marked tile to expand.
ExpandSteps ==
  <<[from |-> Delta(0, 0), to |-> Delta(1, 0)],
    [from |-> Delta(0, 0), to |-> Delta(0, -1)],
    [from |-> Delta(0, 0), to |-> Delta(-1, 0)],
    [from |-> Delta(0, 0), to |-> Delta(0, 1)],
    [from |-> Delta(0, 0), to |-> Delta(1, -1)],
    [from |-> Delta(0, 0), to |-> Delta(-1, -1)],
    [from |-> Delta(0, 0), to |-> Delta(-1, 1)],
    [from |-> Delta(0, 0), to |-> Delta(1, 1)]>>

\* Bounds of the world model: the size of the (warp-free) tile grid.
WorldWidth == 4

WorldHeight == 3

WorldGrid == {Pos(x, y) : x \in 0..(WorldWidth - 1), y \in 0..(WorldHeight - 1)}

\* The spawnables of the level: EntityID -> the tiles the entity lies on.
WorldSpawnables ==
  [id \in {1, 2} |->
     IF id = 1 THEN {Pos(0, 0)} ELSE {Pos(2, 1), Pos(3, 1)}]

\* The tiles a visibility sweep from the player's tile can touch: the tile
\* itself and any of its four neighbours.
Sweeps(player) ==
  {({player} \cup n) \cap WorldGrid :
     n \in SUBSET {PosAdd(player, d) : d \in {East, West, South, North}}}

\* marked with every tile one ExpandStep away from a marked tile.
ExpandOnce(marked) ==
  marked \cup
    ({PosAdd(t, ExpandSteps[k].to) :
        t \in {u \in marked : \A j \in DOMAIN ExpandSteps :
                 PosAdd(u, ExpandSteps[j].from) \in marked},
        k \in DOMAIN ExpandSteps} \cap WorldGrid)

RECURSIVE Expand(_, _)
\* The expansion margin: n rounds of ExpandSteps.
Expand(marked, n) == IF n = 0 THEN marked ELSE Expand(ExpandOnce(marked), n - 1)

\* The entities with a spawnable on one of the tiles.
SpawnablesOn(tiles) == {id \in DOMAIN WorldSpawnables : WorldSpawnables[id] \cap tiles # {}}

\* The tiles under the entities.
TilesUnder(entities) == UNION {WorldSpawnables[id] : id \in entities}

\* Faulty variant: the tiles loaded earlier are kept.
UpdateTilesKeeping(tiles, entities, touched) ==
  tiles \cup Expand(touched, ExpandTiles)
    \cup TilesUnder(SpawnablesOn(Expand(touched, ExpandTiles)))

\* The tiles loaded when Update returns: those marked by the sweep and its
\* expansion and those under the entities then alive; all others are
\* deleted.
UpdateTiles(tiles, entities, touched) ==
  Expand(touched, ExpandTiles)
    \cup TilesUnder(SpawnablesOn(Expand(touched, ExpandTiles)))

\* Faulty variant: every spawnable of a marked tile is spawned.
UpdateSpawnsAll(kept, marked) == SpawnablesOn(marked)

\* The entities Update spawns: the spawnables of the marked tiles that are
\* not spawned already.
UpdateSpawns(kept, marked) == SpawnablesOn(marked) \ kept

WorldInit ==
  /\ wTiles = {}
  /\ wEntities = {}
  /\ wFrame = [None |-> TRUE]

\* World.Update: one frame. The sweep from the player's tile marks the
\* tiles it touches; the marks are expanded; the entities not marked are
\* despawned; the spawnables of the marked tiles are spawned; the tiles
\* under the entities are marked; the unmarked tiles are deleted.
WorldUpdate ==
  /\ \E player \in WorldGrid : \E touched \in Sweeps(player) :
       LET marked == Expand(touched, ExpandTiles)
           kept == wEntities \cap SpawnablesOn(marked)
           spawned == UpdateSpawns(kept, marked)
       IN /\ wEntities' = kept \cup spawned
          /\ wTiles' = UpdateTiles(wTiles, wEntities, touched)
          /\ wFrame' = [Touched |-> touched,
                        TilesBefore |-> wTiles,
                        EntitiesBefore |-> wEntities,
                        Despawned |-> wEntities \ kept,
                        Spawned |-> spawned]
  /\ UNCHANGED nonWorldVars

WorldNext == WorldUpdate

WorldIdle ==
  /\ wTiles = {}
  /\ wEntities = {}
  /\ wFrame = [None |-> TRUE]

-----------------------------------------------------------------------------
(* ExpandImage: the mask is a set of lit pixels.                           *)

\* Bound of the image model: img and tmp are ImageSize x ImageSize pixels.
ImageSize == 13

ImagePixels == {Pos(x, y) : x, y \in 0..(ImageSize - 1)}

\* dst.DrawImage(src) with GeoM.Translate(dx, dy) and CompositeModeLighter
\* (the colours are added, scaled by a weight above zero): a pixel of dst
\* is lit afterwards when it was lit or the pixel of src drawn onto it is.
\* What falls outside dst is dropped.
DrawImage(dst, src, dx, dy) ==
  dst \cup ({PosAdd(p, Delta(dx, dy)) : p \in src} \cap ImagePixels)

\* One iteration of the loop, for the halved size: tmp is cleared and gets
\* img shifted left and right, img is cleared and gets tmp shifted up and
\* down.
ExpandStep(img, size) ==
  LET tmp == DrawImage(DrawImage({}, img, 0 - size, 0), img, size, 0)
  IN DrawImage(DrawImage({}, tmp, 0, 0 - size), tmp, 0, size)

RECURSIVE ExpandLoop(_, _)
\* for size > 1 { size /= 2; ... }
ExpandLoop(img, size) ==
  IF size > 1
    THEN ExpandLoop(ExpandStep(img, size \div 2), size \div 2)
    ELSE img

\* The masks given to ExpandImage: a single lit pixel, or a lit rectangle
\* from a corner of the image to a pixel.
ExpandInputs ==
  {{p} : p \in ImagePixels}
  \cup {{q \in ImagePixels : q.X <= p.X /\ q.Y <= p.Y} : p \in ImagePixels}

ExpandInit ==
  /\ eImg \in ExpandInputs
  /\ eSize \in 0..ExpandSize
  /\ ePc = "call"
  /\ eOut = {}

\* ExpandImage(img, tmp, size, weight)
ExpandImage ==
  /\ ePc = "call"
  /\ eOut' = ExpandLoop(eImg, eSize)
  /\ ePc' = "done"
  /\ UNCHANGED <<eImg, eSize>>
  /\ UNCHANGED nonExpandVars

ExpandNext == ExpandImage

ExpandIdle ==
  /\ eImg = {}
  /\ eSize = 0
  /\ ePc = "idle"
  /\ eOut = {}

-----------------------------------------------------------------------------
(* Package flag: Parse, applyConfig, Set, Marshal.                         *)

\* The flags of the FlagSet: their types and default values.
FlagDefs ==
  [load_config |-> [Type |-> "bool", Default |-> "true"],
   save_state |-> [Type |-> "int", Default |-> "0"],
   dump_video_fps_divisor |-> [Type |-> "int", Default |-> "1"],
   debug_cpuprofile |-> [Type |-> "string", Default |-> ""],
   cheat_dump_slow_and_good |-> [Type |-> "bool", Default |-> "false"]]

FlagNames == DOMAIN FlagDefs

\* A flag name as the words between its underscores.
Words(name) ==
  CASE name = "load_config" -> <<"load", "config">>
    [] name = "save_state" -> <<"save", "state">>
    [] name = "dump_video_fps_divisor" -> <<"dump", "video", "fps", "divisor">>
    [] name = "debug_cpuprofile" -> <<"debug", "cpuprofile">>
    [] name = "cheat_dump_slow_and_good" -> <<"cheat", "dump", "slow", "and", "good">>
    [] OTHER -> <<name>>

\* strings.HasPrefix(name, word + "_")
HasPrefix(name, word) == Len(Words(name)) > 1 /\ Words(name)[1] = word

\* flag.Value.Set(str) for a flag of the type: the value's String()
\* afterwards, or "invalid" when Set returns an error.
ParseValue(type, str) ==
  CASE type = "bool" ->
         (IF str \in {"true", "1"} THEN "true"
          ELSE IF str \in {"false", "0"} THEN "false" ELSE "invalid")
    [] type = "int" ->
         (IF str \in {"2", "02"} THEN "2"
          ELSE IF str \in {"0", "00"} THEN "0" ELSE "invalid")
    [] OTHER -> str

\* The strings given on the command line for a flag (all valid: Parse
\* exits the process on an invalid one).
ArgStrings(name) ==
  CASE FlagDefs[name].Type = "bool" -> {"false", "1"}
    [] FlagDefs[name].Type = "int" -> {"2"}
    [] OTHER -> {"p"}

\* A name that is not a flag of the FlagSet.
NoSuchFlag == "no_such_flag"

\* The strings a config holds, or Set is given, for a name.
ConfigStrings(name) ==
  IF name \notin FlagNames THEN {"1"}
  ELSE CASE FlagDefs[name].Type = "bool" -> {"true", "0", "x"}
         [] FlagDefs[name].Type = "int" -> {"02", "x"}
         [] OTHER -> {"q"}

\* The maps from at most two of the names to strings of strs.
SmallMaps(names, strs(_)) ==
  {m \in UNION {[D -> UNION {strs(n) : n \in names}] :
                  D \in {E \in SUBSET names : Cardinality(E) <= 2}} :
     \A n \in DOMAIN m : m[n] \in strs(n)}

\* flagSet.Set(name, str) succeeds.
SetSucceeds(name, str) ==
  name \in FlagNames /\ ParseValue(FlagDefs[name].Type, str) # "invalid"

\* The FlagSet after flagSet.Parse(args): every flag given is set.
AfterCommandLine(args) ==
  [Value |-> [n \in FlagNames |->
                IF n \in DOMAIN args
                  THEN ParseValue(FlagDefs[n].Type, args[n])
                  ELSE FlagDefs[n].Default],
   DefValue |-> [n \in FlagNames |-> FlagDefs[n].Default],
   Actual |-> DOMAIN args]

\* Faulty variant: the config overrides the flags of the command line.
ConfigTakesOverriding(set, config, name) ==
  /\ name \in DOMAIN config
  /\ SetSucceeds(name, config[name])

\* The loop body of applyConfig changes the flag name: it is in the
\* config, was not set before, and flagSet.Set accepts its value.
ConfigTakes(set, config, name) ==
  /\ name \in DOMAIN config
  /\ name \notin set
  /\ SetSucceeds(name, config[name])

\* What getConfig yields: (nil, err), (nil, nil) or a Config with flags.
NoFlags == [n \in {} |-> ""]

ConfigError == [Kind |-> "error", flags |-> NoFlags]

ConfigNil == [Kind |-> "nil", flags |-> NoFlags]

ConfigOf(flags) == [Kind |-> "config", flags |-> flags]

\* applyConfig() on the FlagSet fs; got is what getConfig yields.
ApplyConfig(fs, got) ==
  IF fs.Value["load_config"] = "false" \/ got.Kind # "config"
    THEN fs
    ELSE LET config == got.flags IN
         [Value |-> [n \in FlagNames |->
                       IF ConfigTakes(fs.Actual, config, n)
                         THEN ParseValue(FlagDefs[n].Type, config[n])
                         ELSE fs.Value[n]],
          DefValue |-> [n \in FlagNames |->
                          IF ConfigTakes(fs.Actual, config, n)
                            THEN config[n] ELSE fs.DefValue[n]],
          Actual |-> fs.Actual \cup
                       {n \in FlagNames : ConfigTakes(fs.Actual, config, n)}]

\* Faulty variant: only the debug flags are left out.
SavedUnlessDebug(name) == ~HasPrefix(name, "debug")

\* Marshal saves the flag: it is neither a debug nor a dump flag.
Saved(name) == ~HasPrefix(name, "debug") /\ ~HasPrefix(name, "dump")

FlagInit ==
  /\ fArgs \in SmallMaps(FlagNames, ArgStrings)
  /\ fConfig \in {ConfigError, ConfigNil}
                   \cup {ConfigOf(m) :
                           m \in SmallMaps(FlagNames \cup {NoSuchFlag}, ConfigStrings)}
  /\ fValue = [n \in FlagNames |-> FlagDefs[n].Default]
  /\ fDefValue = [n \in FlagNames |-> FlagDefs[n].Default]
  /\ fActual = {}
  /\ fPc = "start"
  /\ fMarshalled = NoFlags

\* Parse(getDefaults): the command line, then applyConfig.
Parse ==
  /\ fPc = "start"
  /\ LET fs == ApplyConfig(AfterCommandLine(fArgs), fConfig)
     IN /\ fValue' = fs.Value
        /\ fDefValue' = fs.DefValue
        /\ fActual' = fs.Actual
  /\ fPc' = "parsed"
  /\ UNCHANGED <<fArgs, fConfig, fMarshalled>>
  /\ UNCHANGED nonFlagVars

\* Set(name, value), as the menu calls it; a name that is no flag or a
\* value the flag does not accept returns an error and changes nothing.
Set ==
  /\ fPc = "parsed"
  /\ \E name \in FlagNames \cup {NoSuchFlag} : \E str \in ConfigStrings(name) :
       IF SetSucceeds(name, str)
         THEN /\ fValue' = [fValue EXCEPT ![name] =
                              ParseValue(FlagDefs[name].Type, str)]
              /\ fActual' = fActual \cup {name}
         ELSE UNCHANGED <<fValue, fActual>>
  /\ fPc' = "set"
  /\ UNCHANGED <<fArgs, fConfig, fDefValue, fMarshalled>>
  /\ UNCHANGED nonFlagVars

\* Marshal(): flagSet.Visit goes over the flags that have been set.
Marshal ==
  /\ fPc \in {"parsed", "set"}
  /\ fMarshalled' = [n \in {m \in fActual : Saved(m)} |-> fValue[n]]
  /\ fPc' = "marshalled"
  /\ UNCHANGED <<fArgs, fConfig, fValue, fDefValue, fActual>>
  /\ UNCHANGED nonFlagVars

FlagNext == Parse \/ Set \/ Marshal

FlagIdle ==
  /\ fArgs = NoFlags
  /\ fConfig = ConfigNil
  /\ fValue = NoFlags
  /\ fDefValue = NoFlags
  /\ fActual = {}
  /\ fPc = "idle"
  /\ fMarshalled = NoFlags

-----------------------------------------------------------------------------
(* The mobile wrapper: game.Update, game.Draw, WaitQuit.                   *)

\* Bound of the wrapper model: the number of Update and Draw calls.
MaxCalls == 5

\* How a call of the wrapped game ends.
GameOutcomes == {"nil", "error", "panic"}

NoCall == [Op |-> "none", Init |-> "skipped", Game |-> "skipped", Result |-> "nil"]

MobileInit ==
  /\ mInited = FALSE
  /\ mDrawErr = FALSE
  /\ mRunning = "open"
  /\ mCalls = 0
  /\ mInitEarly = 0
  /\ mLast = NoCall
  /\ mQuit = FALSE

\* What Update's body yields before the deferred function runs, given how
\* InitEarly and game.Update would end: "panic" when one of them panics.
\* A return of g.drawErr leaves ok false, so the deferred function takes
\* it for a panic too.
UpdateBody(drawErr, inited, init, update) ==
  IF drawErr THEN [Init |-> "skipped", Game |-> "skipped", Ok |-> FALSE, Err |-> TRUE]
  ELSE IF ~inited /\ init = "panic"
    THEN [Init |-> init, Game |-> "skipped", Ok |-> FALSE, Err |-> TRUE]
  ELSE IF ~inited /\ init = "error"
    THEN [Init |-> init, Game |-> "skipped", Ok |-> TRUE, Err |-> TRUE]
  ELSE [Init |-> IF inited THEN "skipped" ELSE init,
        Game |-> update,
        Ok |-> update # "panic",
        Err |-> update # "nil"]

\* How Update ends after its deferred function: with an error it closes
\* g.running, and closing a closed channel panics; nothing recovers that
\* panic.
DeferredClose(err, running) ==
  IF err THEN (IF running = "closed" THEN "panic" ELSE "error") ELSE "nil"

\* (g *game) Update()
MobileUpdate ==
  /\ mCalls < MaxCalls
  /\ mLast.Result # "panic"
  /\ \E init \in GameOutcomes, update \in GameOutcomes :
       LET body == UpdateBody(mDrawErr, mInited, init, update)
       IN /\ mInited' = (mInited \/ ~mDrawErr)
          /\ mInitEarly' = mInitEarly + (IF body.Init = "skipped" THEN 0 ELSE 1)
          /\ mRunning' = IF body.Err THEN "closed" ELSE mRunning
          /\ mLast' = [Op |-> "Update", Init |-> body.Init, Game |-> body.Game,
                       Result |-> DeferredClose(body.Err, mRunning)]
  /\ mCalls' = mCalls + 1
  /\ UNCHANGED <<mDrawErr, mQuit>>
  /\ UNCHANGED nonMobileVars

\* (g *game) Draw(screen): a panic of game.Draw is kept in g.drawErr.
MobileDraw ==
  /\ mCalls < MaxCalls
  /\ mLast.Result # "panic"
  /\ \E draw \in {"nil", "panic"} :
       /\ mDrawErr' = (mDrawErr \/ (mInited /\ draw = "panic"))
       /\ mLast' = [Op |-> "Draw", Init |-> "skipped",
                    Game |-> IF mInited THEN draw ELSE "skipped",
                    Result |-> "nil"]
  /\ mCalls' = mCalls + 1
  /\ UNCHANGED <<mInited, mRunning, mInitEarly, mQuit>>
  /\ UNCHANGED nonMobileVars

\* WaitQuit(): <-g.running returns once the channel is closed.
WaitQuit ==
  /\ mRunning = "closed"
  /\ ~mQuit
  /\ mQuit' = TRUE
  /\ UNCHANGED <<mInited, mDrawErr, mRunning, mCalls, mInitEarly, mLast>>
  /\ UNCHANGED nonMobileVars

MobileNext == MobileUpdate \/ MobileDraw \/ WaitQuit

MobileIdle ==
  /\ mInited = FALSE
  /\ mDrawErr = FALSE
  /\ mRunning = "open"
  /\ mCalls = 0
  /\ mInitEarly = 0
  /\ mLast = NoCall
  /\ mQuit = FALSE

-----------------------------------------------------------------------------
(* menu.Controller: the menu on top of the game.                           *)

\* The values of Controller.Screen; "nil" is the game itself.
MenuScreens == {"MainScreen", "CreditsScreen"}

\* How a call into the engine ends: a nil error or an error.
CallOutcomes == {"nil", "error"}

\* resetFlag
ResetFlags == {"loadGame", "resetGame"}

\* The save state slots *saveState may name.
SaveStates == {0, 1}

NoMenuCall ==
  [Op |-> "none", Err |-> "nil", InitGame |-> "none", WorldUpdates |-> 0,
   WorldErr |-> "nil", ScreenBefore |-> "nil"]

MenuCall(op, err, ig, n, werr) ==
  [Op |-> op, Err |-> err, InitGame |-> ig, WorldUpdates |-> n,
   WorldErr |-> werr, ScreenBefore |-> cScreen]

\* initGame(f), World.Init ending as init and World.Load as load: the error
\* returned and the fields after it.  World.Load is only called for
\* loadGame, and only when World.Init succeeded.
initGame(f, init, load) ==
  LET err == IF init = "error" THEN "error"
             ELSE IF f = "loadGame" /\ load = "error" THEN "error"
             ELSE "nil"
  IN [Err |-> err,
      TimerStarted |-> FALSE,
      NeedReloadMap |-> IF err = "nil" THEN FALSE ELSE cNeedReloadMap,
      Stale |-> IF init = "nil" THEN FALSE ELSE cStale,
      Result |-> IF err = "nil" THEN "ok" ELSE "failed"]

\* Controller.UpdateWorld which updates the world under a menu as well.
UpdateWorldUnderMenu ==
  \E w \in CallOutcomes, credits, stopped \in BOOLEAN :
    /\ cForceCredits' = credits
    /\ cTimerStopped' = stopped
    /\ cLast' = MenuCall("UpdateWorld", w, "none", 1, w)
    /\ UNCHANGED <<cInitialized, cScreen, cNeedReloadMap, cTimerStarted,
                   cSaveState, cStale>>
    /\ UNCHANGED nonMenuVars

\* Controller.UpdateWorld().  World.Update ends as w and may stop the timer
\* or ask for the credits.
UpdateWorld ==
  \E w \in CallOutcomes, credits, stopped \in BOOLEAN :
    /\ IF cScreen # "nil"
         THEN /\ cLast' = MenuCall("UpdateWorld", "nil", "none", 0, "nil")
              /\ UNCHANGED <<cForceCredits, cTimerStopped>>
         ELSE /\ cForceCredits' = credits
              /\ cTimerStopped' = stopped
              /\ cLast' = MenuCall("UpdateWorld", w, "none", 1, w)
    /\ UNCHANGED <<cInitialized, cScreen, cNeedReloadMap, cTimerStarted,
                   cSaveState, cStale>>
    /\ UNCHANGED nonMenuVars

\* Controller.InitGame(f)
InitGame ==
  \E f \in ResetFlags, init, load \in CallOutcomes :
    LET r == initGame(f, init, load) IN
    /\ cTimerStarted' = r.TimerStarted
    /\ cNeedReloadMap' = r.NeedReloadMap
    /\ cStale' = r.Stale
    /\ cScreen' = IF r.Err = "nil" THEN "nil" ELSE cScreen
    /\ cLast' = MenuCall("InitGame", r.Err, r.Result, 0, "nil")
    /\ UNCHANGED <<cInitialized, cTimerStopped, cForceCredits, cSaveState>>
    /\ UNCHANGED nonMenuVars

\* Controller.SwitchSaveState(state): World.Save ends as save,
\* engine.SaveConfig as config.
SwitchSaveState ==
  \E state \in SaveStates, save, config, init, load \in CallOutcomes :
    LET r == initGame("loadGame", init, load) IN
    IF save = "error"
      THEN /\ cLast' = MenuCall("SwitchSaveState", "error", "none", 0, "nil")
           /\ UNCHANGED <<cInitialized, cScreen, cNeedReloadMap,
                          cTimerStarted, cTimerStopped, cForceCredits,
                          cSaveState, cStale>>
           /\ UNCHANGED nonMenuVars
      ELSE IF config = "error"
        THEN /\ cSaveState' = state
             /\ cLast' = MenuCall("SwitchSaveState", "error", "none", 0, "nil")
             /\ UNCHANGED <<cInitialized, cScreen, cNeedReloadMap,
                            cTimerStarted, cTimerStopped, cForceCredits,
                            cStale>>
             /\ UNCHANGED nonMenuVars
        ELSE /\ cSaveState' = state
             /\ cTimerStarted' = r.TimerStarted
             /\ cNeedReloadMap' = r.NeedReloadMap
             /\ cStale' = r.Stale
             /\ cScreen' = IF r.Err = "nil" THEN "nil" ELSE cScreen
             /\ cLast' = MenuCall("SwitchSaveState", r.Err, r.Result, 0, "nil")
             /\ UNCHANGED <<cInitialized, cTimerStopped, cForceCredits>>
             /\ UNCHANGED nonMenuVars

\* Controller.SwitchToGame which goes back to the game without a look at
\* needReloadMap.
SwitchToGameNoReload ==
  /\ cScreen' = "nil"
  /\ cLast' = MenuCall("SwitchToGame", "nil", "none", 0, "nil")
  /\ UNCHANGED <<cInitialized, cNeedReloadMap, cTimerStarted, cTimerStopped,
                 cForceCredits, cSaveState, cStale>>
  /\ UNCHANGED nonMenuVars

\* Controller.SwitchToGame()
SwitchToGame ==
  \E init, load \in CallOutcomes :
    LET r == initGame("loadGame", init, load) IN
    IF cNeedReloadMap
      THEN /\ cTimerStarted' = r.TimerStarted
           /\ cNeedReloadMap' = r.NeedReloadMap
           /\ cStale' = r.Stale
           /\ cScreen' = IF r.Err = "nil" THEN "nil" ELSE cScreen
           /\ cLast' = MenuCall("SwitchToGame", r.Err, r.Result, 0, "nil")
           /\ UNCHANGED <<cInitialized, cTimerStopped, cForceCredits,
                          cSaveState>>
           /\ UNCHANGED nonMenuVars
      ELSE /\ cScreen' = "nil"
           /\ cLast' = MenuCall("SwitchToGame", "nil", "none", 0, "nil")
           /\ UNCHANGED <<cInitialized, cNeedReloadMap, cTimerStarted,
                          cTimerStopped, cForceCredits, cSaveState, cStale>>
           /\ UNCHANGED nonMenuVars

\* Controller.SwitchToCheckpoint(cp): World.RespawnPlayer ends as respawn.
SwitchToCheckpoint ==
  \E init, load, respawn \in CallOutcomes :
    LET r == initGame("loadGame", init, load)
        ig == IF cNeedReloadMap THEN r.Result ELSE "none"
    IN
    IF cNeedReloadMap /\ r.Err = "error"
      THEN /\ cTimerStarted' = r.TimerStarted
           /\ cNeedReloadMap' = r.NeedReloadMap
           /\ cStale' = r.Stale
           /\ cLast' = MenuCall("SwitchToCheckpoint", "error", ig, 0, "nil")
           /\ UNCHANGED <<cInitialized, cScreen, cTimerStopped,
                          cForceCredits, cSaveState>>
           /\ UNCHANGED nonMenuVars
      ELSE /\ cNeedReloadMap' = FALSE
           /\ cStale' = IF cNeedReloadMap THEN r.Stale ELSE cStale
           /\ cTimerStarted' =
                IF respawn = "nil" THEN TRUE
                ELSE IF cNeedReloadMap THEN FALSE ELSE cTimerStarted
           /\ cScreen' = IF respawn = "nil" THEN "nil" ELSE cScreen
           /\ cLast' = MenuCall("SwitchToCheckpoint", respawn, ig, 0, "nil")
           /\ UNCHANGED <<cInitialized, cTimerStopped, cForceCredits,
                          cSaveState>>
           /\ UNCHANGED nonMenuVars

\* Controller.SwitchToScreen(screen): screen.Init ends as init.
SwitchToScreen ==
  \E screen \in MenuScreens, init \in CallOutcomes :
    /\ cScreen' = screen
    /\ cLast' = MenuCall("SwitchToScreen", init, "none", 0, "nil")
    /\ UNCHANGED <<cInitialized, cNeedReloadMap, cTimerStarted,
                   cTimerStopped, cForceCredits, cSaveState, cStale>>
    /\ UNCHANGED nonMenuVars

\* Controller.PaletteChanged()
PaletteChanged ==
  /\ cNeedReloadMap' = TRUE
  /\ cStale' = TRUE
  /\ cLast' = MenuCall("PaletteChanged", "nil", "none", 0, "nil")
  /\ UNCHANGED <<cInitialized, cScreen, cTimerStarted, cTimerStopped,
                 cForceCredits, cSaveState>>
  /\ UNCHANGED nonMenuVars

\* Controller.Update() up to the call of Screen.Update: the first call
\* initializes the game, then the global hotkeys are served.  What the
\* screen's own Update calls on the Controller are the actions above.
ControllerUpdate ==
  \E init, load, snd, scr \in CallOutcomes, exit, played \in BOOLEAN :
    LET r == initGame("loadGame", init, load)
        first == ~cInitialized
        started == IF first THEN FALSE ELSE cTimerStarted
        screen == IF first THEN "nil" ELSE cScreen
        ig == IF first THEN r.Result ELSE "none"
    IN
    IF first /\ r.Err = "error"
      THEN /\ cTimerStarted' = r.TimerStarted
           /\ cNeedReloadMap' = r.NeedReloadMap
           /\ cStale' = r.Stale
           /\ cLast' = MenuCall("Update", "error", ig, 0, "nil")
           /\ UNCHANGED <<cInitialized, cScreen, cTimerStopped,
                          cForceCredits, cSaveState>>
           /\ UNCHANGED nonMenuVars
      ELSE IF first /\ snd = "error"
        THEN /\ cTimerStarted' = FALSE
             /\ cNeedReloadMap' = FALSE
             /\ cStale' = FALSE
             /\ cScreen' = "nil"
             /\ cLast' = MenuCall("Update", "error", ig, 0, "nil")
             /\ UNCHANGED <<cInitialized, cTimerStopped, cForceCredits,
                            cSaveState>>
             /\ UNCHANGED nonMenuVars
        ELSE /\ cInitialized' = TRUE
             /\ cNeedReloadMap' = IF first THEN FALSE ELSE cNeedReloadMap
             /\ cStale' = IF first THEN FALSE ELSE cStale
             /\ IF cForceCredits
                  THEN /\ cForceCredits' = FALSE
                       /\ cScreen' = "CreditsScreen"
                       /\ cTimerStarted' = started
                       /\ cLast' = MenuCall("Update", scr, ig, 0, "nil")
                  ELSE IF exit /\ screen = "nil" /\ ~cTimerStopped
                    THEN /\ cTimerStarted' = (played \/ started)
                         /\ cScreen' = "MainScreen"
                         /\ cLast' = MenuCall("Update", scr, ig, 0, "nil")
                         /\ UNCHANGED cForceCredits
                    ELSE /\ cTimerStarted' = started
                         /\ cScreen' = screen
                         /\ cLast' = MenuCall("Update", "nil", ig, 0, "nil")
                         /\ UNCHANGED cForceCredits
             /\ UNCHANGED <<cTimerStopped, cSaveState>>
             /\ UNCHANGED nonMenuVars

MenuInit ==
  /\ cInitialized = FALSE
  /\ cScreen = "nil"
  /\ cNeedReloadMap = FALSE
  /\ cTimerStarted = FALSE
  /\ cTimerStopped = FALSE
  /\ cForceCredits = FALSE
  /\ cSaveState \in SaveStates
  /\ cStale = FALSE
  /\ cLast = NoMenuCall

MenuNext ==
  \/ ControllerUpdate
  \/ UpdateWorld
  \/ InitGame
  \/ SwitchSaveState
  \/ SwitchToGame
  \/ SwitchToCheckpoint
  \/ SwitchToScreen
  \/ PaletteChanged

MenuIdle ==
  /\ cInitialized = FALSE
  /\ cScreen = "nil"
  /\ cNeedReloadMap = FALSE
  /\ cTimerStarted = FALSE
  /\ cTimerStopped = FALSE
  /\ cForceCredits = FALSE
  /\ cSaveState = 0
  /\ cStale = FALSE
  /\ cLast = NoMenuCall

-----------------------------------------------------------------------------
(* menu.ResetScreen: the screen that resets the config or the saved game.  *)

\* ResetScreenItem
ResetNothing == 0
ResetConfig == 1
ResetGame == 2
BackToMain == 3
ResetCount == 4

resetFrames == 300

\* How many Updates past resetFrames the countdown is followed.
MaxHold == 2

\* m.Mod(a, b): the remainder in 0..b-1.
Mod(a, b) == a % b

\* ResetFrame after the first statement of Update, which never resets it.
ResetFrameCounting(item, frame) == frame + 1

\* ResetFrame after the first statement of Update.
ResetFrameAfter(item, frame) == IF item = ResetGame THEN frame + 1 ELSE 0

\* Item after the cursor movement of Update.
ItemAfter(item, down, up) ==
  Mod(item + (IF down THEN 1 ELSE 0) - (IF up THEN 1 ELSE 0), ResetCount)

\* What Update calls on the Menu, given the JustHit inputs.
ResetCall(item, frame, exit, hit) ==
  IF exit THEN "SwitchToScreen(SettingsScreen)"
  ELSE IF ~hit THEN "none"
  ELSE IF item = ResetNothing THEN "SwitchToScreen(SettingsScreen)"
  ELSE IF item = ResetConfig THEN "ResetToDefaults"
  ELSE IF item = ResetGame
    THEN IF frame >= resetFrames THEN "InitGame(resetGame)" ELSE "none"
  ELSE "SwitchToScreen(MainScreen)"

NoResetUpdate ==
  [Hit |-> FALSE, ItemBefore |-> ResetNothing, Call |-> "none",
   Err |-> "nil"]

\* ResetScreen.Update(), with the JustHit of Down, Up, Exit, Jump and Action
\* as inputs; what it calls on the Menu ends as res.
ResetUpdate ==
  \E down, up, exit, jump, action \in BOOLEAN, res \in CallOutcomes :
    LET frame == ResetFrameAfter(rItem, rResetFrame)
        item == ItemAfter(rItem, down, up)
        call == ResetCall(item, frame, exit, jump \/ action)
    IN
    /\ rOpen
    /\ frame <= resetFrames + MaxHold
    /\ rResetFrame' = frame
    /\ rItem' = item
    /\ rRun' = IF rItem = ResetGame
                 THEN (IF rRun < resetFrames THEN rRun + 1 ELSE rRun)
                 ELSE 0
    /\ rOpen' = (call = "none" \/ (call = "InitGame(resetGame)" /\ res = "error"))
    /\ rLast' = [Hit |-> jump \/ action, ItemBefore |-> rItem, Call |-> call,
                 Err |-> IF call = "none" THEN "nil" ELSE res]
    /\ UNCHANGED nonResetVars

ResetInit ==
  /\ rItem = ResetNothing
  /\ rResetFrame = 0
  /\ rRun = 0
  /\ rOpen = TRUE
  /\ rLast = NoResetUpdate

ResetNext == ResetUpdate

ResetIdle ==
  /\ rItem = ResetNothing
  /\ rResetFrame = 0
  /\ rRun = 0
  /\ rOpen = FALSE
  /\ rLast = NoResetUpdate

-----------------------------------------------------------------------------
(* package input: impulses and the input map.                              *)

\* InputMap bits
NoInput == 0
DOSKeyboardWithEscape == 1
Gamepad == 16
DOSKeyboardWithBackspace == 32
AnyKeyboard == 495

RECURSIVE BitAnd(_, _)
\* a & b on non-negative integers
BitAnd(a, b) ==
  IF a = 0 \/ b = 0 THEN 0
  ELSE (a % 2) * (b % 2) + 2 * BitAnd(a \div 2, b \div 2)

\* a | b on non-negative integers
BitOr(a, b) == a + b - BitAnd(a, b)

\* The impulses registered; Update visits them in this order.
Impulses == <<"Jump", "Exit">>

ImpulseNames == {Impulses[k] : k \in DOMAIN Impulses}

\* What keyboardPressed and gamepadPressed may yield for an impulse.
KeyboardHelds ==
  {NoInput, DOSKeyboardWithEscape, DOSKeyboardWithBackspace,
   DOSKeyboardWithEscape + DOSKeyboardWithBackspace}

GamepadHelds == {NoInput, Gamepad}

\* ImpulseState
ImpulseState(held, justHit) == [Held |-> held, JustHit |-> justHit]

ImpulseStates == {ImpulseState(h, j) : h, j \in BOOLEAN}

\* The ImpulseState after an update that takes JustHit from the level.
ImpulseAfterLevel(i, held) == ImpulseState(held # 0, held # 0)

\* The ImpulseState after i.update(), held being
\* keyboardHeld | gamepadHeld.
ImpulseAfter(i, held) == ImpulseState(held # 0, held # 0 /\ ~i.Held)

\* inputMap after i.update()
InputMapAfter(i, held, map) ==
  IF held # 0 /\ ~i.Held
    THEN (IF BitAnd(map, held) = NoInput THEN held ELSE BitAnd(map, held))
    ELSE map

RECURSIVE UpdateImpulses(_, _, _, _)
\* The loop of Update over impulses[k..]: helds[name] is what the impulse's
\* controls yield.  The result is the impulse states and inputMap.
UpdateImpulses(k, st, map, helds) ==
  IF k > Len(Impulses) THEN [State |-> st, InputMap |-> map]
  ELSE LET name == Impulses[k] IN
       UpdateImpulses(k + 1,
                      [st EXCEPT ![name] = ImpulseAfter(st[name], helds[name])],
                      InputMapAfter(st[name], helds[name], map),
                      helds)

NoInputCall ==
  [Op |-> "none", PrevOp |-> "none",
   Pressed |-> [n \in ImpulseNames |-> FALSE],
   Before |-> [n \in ImpulseNames |-> ImpulseState(FALSE, FALSE)]]

\* input.Update(...): gamepads tells whether a gamepad is present, kb and
\* pad what keyboardPressed and gamepadPressed yield for each impulse.
InputUpdate ==
  \E gamepads \in BOOLEAN,
     kb \in [ImpulseNames -> KeyboardHelds],
     pad \in [ImpulseNames -> GamepadHelds] :
    LET helds == [n \in ImpulseNames |-> BitOr(kb[n], pad[n])]
        map == IF iFirstUpdate
                 THEN (IF gamepads THEN Gamepad ELSE AnyKeyboard)
                 ELSE iInputMap
        r == UpdateImpulses(1, iState, map, helds)
    IN
    /\ iState' = r.State
    /\ iInputMap' = r.InputMap
    /\ iFirstUpdate' = FALSE
    /\ iLast' = [Op |-> "Update", PrevOp |-> iLast.Op,
                 Pressed |-> [n \in ImpulseNames |->
                                kb[n] # NoInput \/ pad[n] # NoInput],
                 Before |-> iState]
    /\ UNCHANGED nonInputVars

\* input.LoadFromDemo(state)
LoadFromDemo ==
  \E map \in {NoInput, Gamepad, AnyKeyboard},
     st \in [ImpulseNames -> ImpulseStates] :
    /\ iState' = st
    /\ iInputMap' = map
    /\ iLast' = [Op |-> "LoadFromDemo", PrevOp |-> iLast.Op,
                 Pressed |-> [n \in ImpulseNames |-> FALSE],
                 Before |-> iState]
    /\ UNCHANGED iFirstUpdate
    /\ UNCHANGED nonInputVars

InputInit ==
  /\ iState = [n \in ImpulseNames |-> ImpulseState(FALSE, FALSE)]
  /\ iInputMap = NoInput
  /\ iFirstUpdate = TRUE
  /\ iLast = NoInputCall

InputNext == InputUpdate \/ LoadFromDemo

InputIdle ==
  /\ iState = [n \in ImpulseNames |-> ImpulseState(FALSE, FALSE)]
  /\ iInputMap = NoInput
  /\ iFirstUpdate = FALSE
  /\ iLast = NoInputCall

-----------------------------------------------------------------------------
(* game.Player in a vertical shaft one player wide: walls on both sides,   *)
(* the floor below and a ceiling above.                                    *)

GameTPS == 60

SubPixelScale == 65536

MaxGroundSpeed == (160 * SubPixelScale) \div GameTPS
GroundAccel == ((960 * SubPixelScale) \div GameTPS) \div GameTPS
GroundFriction == ((640 * SubPixelScale) \div GameTPS) \div GameTPS
MaxAirSpeed == (80 * SubPixelScale) \div GameTPS
AirAccel == ((160 * SubPixelScale) \div GameTPS) \div GameTPS
JumpVelocity == (288 * SubPixelScale) \div GameTPS
Gravity == ((576 * SubPixelScale) \div GameTPS) \div GameTPS
JumpExtraGravity == (72 * Gravity) \div 19 - Gravity

\* The Y of the player's origin when it stands on the floor; Y grows
\* downward.
GroundY == 0

\* How far above GroundY the ceiling stops the player's origin.
LowCeiling == 10
HighCeiling == 80

Ceilings == {GroundY - LowCeiling, GroundY - HighCeiling}

\* What the jump key may be in an Update.
KeyStates == BOOLEAN

\* What the left and right keys may be in an Update: the shaft leaves no
\* room to move sideways, and the keys are left alone.
SideKeyStates == {FALSE}

\* What m.Delta.Div may do with a negative component.
DivModes == {"floor", "truncate"}

\* a / b of Go: the quotient truncated toward zero (b > 0).
GoDiv(a, b) == IF a >= 0 THEN a \div b ELSE 0 - ((0 - a) \div b)

\* One component of p.SubPixel.Div(SubPixelScale).
MoveOf(s) ==
  IF pDiv = "floor" THEN s \div SubPixelScale ELSE GoDiv(s, SubPixelScale)

\* accelerate(vel, accel, max, dir): the new *vel
accelerate(vel, accel, max, dir) ==
  LET sum == vel + dir * accel
      newVel == IF sum * dir > max THEN max * dir ELSE sum
  IN IF newVel * dir > vel * dir THEN newVel ELSE vel

\* friction(vel, friction): the new *vel
friction(vel, f) == accelerate(accelerate(vel, f, 0, 1), f, 0, -1)

\* Velocity.DX after the key handling of Update.
VelocityDX(vel, onGround, left, right) ==
  LET accel == IF onGround THEN GroundAccel ELSE AirAccel
      max == IF onGround THEN MaxGroundSpeed ELSE MaxAirSpeed
      v0 == IF onGround THEN friction(vel, GroundFriction) ELSE vel
      v1 == IF left THEN accelerate(v0, accel, max, -1) ELSE v0
  IN IF right THEN accelerate(v1, accel, max, 1) ELSE v1

\* SubPixel component after a trace that hit something.
ClampSubPixel(s) ==
  IF s > SubPixelScale - 1 THEN SubPixelScale - 1
  ELSE IF s < 0 THEN 0 ELSE s

\* World.TraceBox of the player's box straight up or down the shaft: EndPos.Y
TraceShaft(dest) ==
  IF dest > GroundY THEN GroundY
  ELSE IF dest < pCeiling THEN pCeiling
  ELSE dest

\* JumpExtraGravity is added in every Update that finds the player rising.
ExtraGravityWhileRising(onGround, velDY, jumping) ==
  ~onGround /\ velDY < 0

\* Whether Update adds JumpExtraGravity.
ExtraGravity(onGround, velDY, jumping) ==
  ~onGround /\ velDY < 0 /\ ~jumping

NoJump ==
  [Phase |-> "none", Held |-> FALSE, Age |-> 0, Cut |-> FALSE,
   Blocked |-> FALSE, From |-> 0, Peak |-> 0]

NoPlayerUpdate ==
  [Jump |-> FALSE, Started |-> FALSE, Extra |-> FALSE, YBefore |-> 0,
   OnGroundBefore |-> FALSE, JumpingBefore |-> FALSE, Rising |-> FALSE]

\* Player.Update(), the keys as inputs.
PlayerUpdate ==
  \E jump \in KeyStates, left, right \in SideKeyStates :
    LET start == jump /\ ~pJumping /\ pOnGround
        vy1 == IF start THEN pVelocity.DY - JumpVelocity ELSE pVelocity.DY
        og1 == IF start THEN FALSE ELSE pOnGround
        jg1 == IF jump THEN (start \/ pJumping) ELSE FALSE
        vx1 == VelocityDX(pVelocity.DX, og1, left, right)
        extra == ExtraGravity(og1, vy1, jg1)
        vy2 == (IF extra THEN vy1 + JumpExtraGravity ELSE vy1) + Gravity
        sx == pSubPixel.DX + vx1
        sy == pSubPixel.DY + vy2
        mx == MoveOf(sx)
        my == MoveOf(sy)
        \* The walls stop every move to the side.
        sx2 == IF mx # 0 THEN ClampSubPixel(sx) ELSE sx
        vx2 == IF mx # 0 THEN 0 ELSE vx1
        end == TraceShaft(pY + my)
        hit == my # 0 /\ end # pY + my
        sy2 == IF my = 0 THEN sy
               ELSE IF hit THEN ClampSubPixel(sy)
               ELSE sy - my * SubPixelScale
        vy3 == IF hit THEN 0 ELSE vy2
        og2 == IF my # 0 THEN (hit \/ og1)
               ELSE IF og1 THEN TraceShaft(pY + 1) = pY
               ELSE FALSE
        y2 == IF my # 0 THEN end ELSE pY
        peak == IF y2 < pJump.Peak THEN y2 ELSE pJump.Peak
    IN
    /\ pVelocity' = [DX |-> vx2, DY |-> vy3]
    /\ pSubPixel' = [DX |-> sx2, DY |-> sy2]
    /\ pY' = y2
    /\ pOnGround' = og2
    /\ pJumping' = jg1
    /\ pJump' =
         IF start
           THEN [Phase |-> IF vy3 < 0 THEN "rising" ELSE "falling",
                 Held |-> TRUE, Age |-> 0, Cut |-> FALSE, Blocked |-> hit,
                 From |-> pY, Peak |-> y2]
         ELSE IF pJump.Phase = "rising"
           THEN [Phase |-> IF vy3 < 0 THEN "rising" ELSE "falling",
                 Held |-> pJump.Held /\ jump,
                 Age |-> IF pJump.Age < 2 THEN pJump.Age + 1 ELSE 2,
                 Cut |-> IF pJump.Age = 0 THEN ~jump ELSE pJump.Cut,
                 Blocked |-> pJump.Blocked \/ hit,
                 From |-> pJump.From, Peak |-> peak]
         ELSE NoJump
    /\ pLast' = [Jump |-> jump, Started |-> start, Extra |-> extra,
                 YBefore |-> pY, OnGroundBefore |-> pOnGround,
                 JumpingBefore |-> pJumping, Rising |-> vy1 < 0]
    /\ UNCHANGED <<pCeiling, pDiv>>
    /\ UNCHANGED nonPlayerVars

\* The player as Spawn leaves it, placed on the floor of the shaft.
PlayerInit ==
  /\ pY = GroundY
  /\ pOnGround = FALSE
  /\ pJumping = FALSE
  /\ pVelocity = [DX |-> 0, DY |-> 0]
  /\ pSubPixel = [DX |-> 0, DY |-> 0]
  /\ pCeiling \in Ceilings
  /\ pDiv \in DivModes
  /\ pJump = NoJump
  /\ pLast = NoPlayerUpdate

PlayerNext == PlayerUpdate

PlayerIdle ==
  /\ pY = GroundY
  /\ pOnGround = FALSE
  /\ pJumping = FALSE
  /\ pVelocity = [DX |-> 0, DY |-> 0]
  /\ pSubPixel = [DX |-> 0, DY |-> 0]
  /\ pCeiling = GroundY
  /\ pDiv = "floor"
  /\ pJump = NoJump
  /\ pLast = NoPlayerUpdate

-----------------------------------------------------------------------------
(* game.QuestionBlock                                                      *)

UseFramesPerPixel == 2
UsePixels == 4

\* The block is one tile high.
BlockHeight == TileSize

\* Where the block is placed, and the Origin.Y of the entities that meet
\* it: above it, level with its lowest pixel row, right below it.
BlockY == 0
OtherYs == {BlockY, BlockY + BlockHeight - 1, BlockY + BlockHeight}

\* What s.PersistentState["used"] may hold when the block spawns.
UsedStrings == {"", "true", "false"}

\* q.isAbove(other), y being other.Rect.Origin.Y
isAbove(y) == qY + BlockHeight - 1 < y

\* Entity.Solid after Update, which follows the player whether or not the
\* block is used.
SolidAfterUpdateAlways(used, kaizo, solid, above) ==
  IF kaizo THEN above ELSE solid

\* Entity.Solid after Update; above is isAbove(World.Player).
SolidAfterUpdate(used, kaizo, solid, above) ==
  IF used \/ ~kaizo THEN solid ELSE above

BlockState ==
  [Used |-> qUsed, Solid |-> qSolid, Persistent |-> qPersistent,
   Image |-> qImage, Y |-> qY, Frame |-> qFrame]

NoBlockCall ==
  [Op |-> "none", Above |-> FALSE,
   Before |-> [Used |-> FALSE, Solid |-> FALSE, Persistent |-> "",
               Image |-> "nil", Y |-> 0, Frame |-> 0]]

\* QuestionBlock.Spawn(w, s, e): s holds used and kaizo; LoadImage ends as
\* load.
QuestionBlockSpawn ==
  \E used \in UsedStrings, kaizo \in BOOLEAN, load \in CallOutcomes :
    /\ qPc = "spawn"
    /\ qPersistent' = used
    /\ qSolid' = TRUE
    /\ qKaizo' = kaizo
    /\ qUsed' = (used = "true")
    /\ qY' = BlockY
    /\ IF load = "error"
         THEN /\ qPc' = "failed"
              /\ UNCHANGED <<qImage, qFrame>>
         ELSE /\ qPc' = "live"
              /\ qImage' = IF used = "true" THEN "exclamationblock"
                           ELSE IF kaizo THEN "nil" ELSE "questionblock"
              /\ qFrame' = IF used = "true"
                             THEN 2 * UseFramesPerPixel * UsePixels ELSE 0
    /\ qLast' = [NoBlockCall EXCEPT !.Op = "Spawn"]
    /\ UNCHANGED nonBlockVars

\* QuestionBlock.Update(), the player's Origin.Y as input.
QuestionBlockUpdate ==
  \E player \in OtherYs :
    LET rising == qUsed /\ qFrame < UseFramesPerPixel * UsePixels
        sinking == qUsed /\ ~rising
                     /\ qFrame < 2 * UseFramesPerPixel * UsePixels
        frame == IF rising \/ sinking THEN qFrame + 1 ELSE qFrame
        step == (rising \/ sinking) /\ frame % UseFramesPerPixel = 0
    IN
    /\ qPc = "live"
    /\ qFrame' = frame
    /\ qY' = IF step THEN (IF rising THEN qY - 1 ELSE qY + 1) ELSE qY
    /\ qSolid' = SolidAfterUpdate(qUsed, qKaizo, qSolid, isAbove(player))
    /\ qLast' = [Op |-> "Update", Above |-> isAbove(player),
                 Before |-> BlockState]
    /\ UNCHANGED <<qUsed, qPersistent, qKaizo, qImage, qPc>>
    /\ UNCHANGED nonBlockVars

\* QuestionBlock.Touch(other), other's Origin.Y as input.
QuestionBlockTouch ==
  \E other \in OtherYs :
    /\ qPc = "live"
    /\ IF qUsed \/ ~isAbove(other)
         THEN UNCHANGED <<qUsed, qPersistent, qImage, qSolid>>
         ELSE /\ qUsed' = TRUE
              /\ qPersistent' = "true"
              /\ qImage' = "exclamationblock"
              /\ qSolid' = TRUE
    /\ qLast' = [Op |-> "Touch", Above |-> isAbove(other),
                 Before |-> BlockState]
    /\ UNCHANGED <<qKaizo, qFrame, qY, qPc>>
    /\ UNCHANGED nonBlockVars

BlockInit ==
  /\ qUsed = FALSE
  /\ qPersistent = ""
  /\ qSolid = FALSE
  /\ qKaizo = FALSE
  /\ qImage = "nil"
  /\ qFrame = 0
  /\ qY = BlockY
  /\ qPc = "spawn"
  /\ qLast = NoBlockCall

BlockNext == QuestionBlockSpawn \/ QuestionBlockUpdate \/ QuestionBlockTouch

BlockIdle ==
  /\ qUsed = FALSE
  /\ qPersistent = ""
  /\ qSolid = FALSE
  /\ qKaizo = FALSE
  /\ qImage = "nil"
  /\ qFrame = 0
  /\ qY = BlockY
  /\ qPc = "idle"
  /\ qLast = NoBlockCall

-----------------------------------------------------------------------------
(* misc.MovingSprite                                                       *)

\* The largest DespawnFadeFrames a sprite is given.
MaxFadeFrames == 3

\* How many Updates of one sprite are followed.
MaxSpriteUpdates == 8

\* What the trace of Physics.Update may report: nothing, or a hit whose
\* HitEntity is the player, another entity, or nil (a tile).
TraceHits == {"none", "player", "entity", "tile"}

\* Entity.Alpha as a fraction of s.Alpha.
Fraction(num, den) == [Num |-> num, Den |-> den]

\* s.handleTouch(trace): the new s.Despawning
handleTouch(hit) ==
  IF vDespawnFadeFrames > 0 /\ hit # "player" THEN TRUE ELSE vDespawning

NoSpriteUpdate == [Hit |-> "none", Despawned |-> FALSE, Updates |-> 0]

\* MovingSprite.Update(): Physics.Update moves the sprite and calls
\* handleTouch when its trace hit something.
SpriteUpdate ==
  \E hit \in TraceHits :
    LET despawning == IF hit = "none" THEN vDespawning ELSE handleTouch(hit)
        fade == IF despawning /\ vFadeFrame > 0
                  THEN vFadeFrame - 1 ELSE vFadeFrame
    IN
    /\ vDespawns = 0
    /\ vLast.Updates < MaxSpriteUpdates
    /\ vDespawning' = despawning
    /\ vFadeFrame' = fade
    /\ vDespawns' = IF despawning /\ fade = 0 THEN vDespawns + 1 ELSE vDespawns
    /\ vAlpha' = IF despawning THEN Fraction(fade, vDespawnFadeFrames)
                 ELSE vAlpha
    /\ vSince' = IF despawning THEN vSince + 1 ELSE vSince
    /\ vLast' = [Hit |-> hit, Despawned |-> despawning /\ fade = 0,
                 Updates |-> vLast.Updates + 1]
    /\ UNCHANGED vDespawnFadeFrames
    /\ UNCHANGED nonSpriteVars

\* The sprite after Spawn, which assigns neither DespawnFadeFrames nor
\* FadeFrame; DespawnFadeFrames is what the sprite was built with.
SpriteInit ==
  /\ vDespawnFadeFrames \in 0 .. MaxFadeFrames
  /\ vDespawning = FALSE
  /\ vFadeFrame = 0
  /\ vDespawns = 0
  /\ vAlpha = Fraction(1, 1)
  /\ vSince = 0
  /\ vLast = NoSpriteUpdate

SpriteNext == SpriteUpdate

SpriteIdle ==
  /\ vDespawnFadeFrames = 0
  /\ vDespawning = FALSE
  /\ vFadeFrame = 0
  /\ vDespawns = 0
  /\ vAlpha = Fraction(1, 1)
  /\ vSince = 0
  /\ vLast = NoSpriteUpdate

-----------------------------------------------------------------------------
(* game.Checkpoint                                                         *)

\* The names of the checkpoints of the level; the model follows the first.
CheckpointNames == {"a", "b"}

\* What the player's PersistentState may hold under last_checkpoint and
\* under checkpoint_seen.<name> of the checkpoint followed.
SeenStrings == {"", "Identity", "FlipX"}

PlayerState(last, seen) == [last_checkpoint |-> last, checkpoint_seen |-> seen]

\* flippedStr of Update, whatever the orientation.
FlippedStrAlways(orientation, required) ==
  IF orientation = required THEN "Identity" ELSE "FlipX"

\* flippedStr of Update, "" when Update returns over the orientation.
FlippedStr(orientation, required) ==
  IF orientation = required THEN "Identity"
  ELSE IF orientation = Concat(FlipX, required) THEN "FlipX"
  ELSE ""

NoCheckpointCall ==
  [Op |-> "none", Orientation |-> Identity, ZeroDelta |-> FALSE,
   Message |-> FALSE, Repeat |-> FALSE, Before |-> PlayerState("", "")]

\* Checkpoint.Spawn(w, s, e): required_orientation parses to o, or not at
\* all.
CheckpointSpawn ==
  \E o \in AllOrientations, parse \in CallOutcomes, name \in CheckpointNames :
    /\ kPc = "spawn"
    /\ IF parse = "error"
         THEN /\ kPc' = "failed"
              /\ UNCHANGED <<kRequired, kName>>
         ELSE /\ kPc' = "live"
              /\ kRequired' = Inverse(o)
              /\ kName' = name
    /\ kLast' = [NoCheckpointCall EXCEPT !.Op = "Spawn"]
    /\ UNCHANGED kState
    /\ UNCHANGED nonCheckpointVars

\* Checkpoint.Update(): c.Entity.Orientation and whether the player's Rect
\* has a zero Delta to the checkpoint's are inputs.
CheckpointUpdate ==
  \E orientation \in AllOrientations, zero \in BOOLEAN :
    LET flippedStr == FlippedStr(orientation, kRequired)
        write == /\ flippedStr # ""
                 /\ zero
                 /\ ~(kState.last_checkpoint = kName
                        /\ kState.checkpoint_seen = flippedStr)
    IN
    /\ kPc = "live"
    /\ kState' = IF write THEN PlayerState(kName, flippedStr) ELSE kState
    /\ kLast' = [Op |-> "Update", Orientation |-> orientation,
                 ZeroDelta |-> zero, Message |-> write,
                 Repeat |-> (kLast.Op = "Update"
                               /\ kLast.Orientation = orientation
                               /\ kLast.ZeroDelta = zero),
                 Before |-> kState]
    /\ UNCHANGED <<kRequired, kName, kPc>>
    /\ UNCHANGED nonCheckpointVars

CheckpointInit ==
  /\ kRequired = Identity
  /\ kName = ""
  /\ kState \in {PlayerState(l, s) : l \in CheckpointNames \cup {""},
                                     s \in SeenStrings}
  /\ kPc = "spawn"
  /\ kLast = NoCheckpointCall

CheckpointNext == CheckpointSpawn \/ CheckpointUpdate

CheckpointIdle ==
  /\ kRequired = Identity
  /\ kName = ""
  /\ kState = PlayerState("", "")
  /\ kPc = "idle"
  /\ kLast = NoCheckpointCall

-----------------------------------------------------------------------------
(* package aaaaxy: dumping the game's audio and video.                     *)

\* The most frames one call of dumpFrameThenReturnTo is given, and the most
\* frames followed in all.
MaxFrames == 2
MaxDumpFrames == 4

\* The values of -dump_video_fps_divisor followed.
FpsDivisors == {1, 2}

\* The command line: whether -dump_media, -dump_audio and -dump_video are
\* set, and the divisor.
DumpFlags ==
  [Media : BOOLEAN, Audio : BOOLEAN, Video : BOOLEAN, Divisor : FpsDivisors]

\* dumping()
dumping == dAudioFile # "nil" \/ dVideoFile # "nil"

NoFinish == [Returned |-> FALSE, Err |-> "nil", Waited |-> FALSE]

NoDumpCall == [Op |-> "none", Frames |-> 0, Audio |-> FALSE]

\* initDumpingEarly(): namedpipe.New ends as pipe, the os.Create calls as
\* audio and video.
initDumpingEarly ==
  \E pipe, audio, video \in CallOutcomes :
    LET clash == dFlags.Media /\ (dFlags.Video \/ dFlags.Audio)
        a1 == IF dFlags.Media /\ ~clash /\ pipe = "nil" THEN "open" ELSE "nil"
        v1 == a1
        err1 == dFlags.Media /\ (clash \/ pipe = "error")
        err2 == ~err1 /\ dFlags.Audio /\ audio = "error"
        a2 == IF ~err1 /\ dFlags.Audio /\ audio = "nil" THEN "open" ELSE a1
        err3 == ~err1 /\ ~err2 /\ dFlags.Video /\ video = "error"
        v2 == IF ~err1 /\ ~err2 /\ dFlags.Video /\ video = "nil"
                THEN "open" ELSE v1
    IN
    /\ dPc = "early"
    /\ dAudioFile' = a2
    /\ dVideoFile' = v2
    /\ dPc' = IF err1 \/ err2 \/ err3 THEN "failed" ELSE "late"
    /\ dLast' = [NoDumpCall EXCEPT !.Op = "initDumpingEarly"]
    /\ UNCHANGED <<dFlags, dMediaCmd, dProc, dFrameCount, dTotal, dAudioPos,
                   dPending, dFinish>>
    /\ UNCHANGED nonDumpVars

\* The package variable dumpMediaCmd after initDumpingLate: the command is
\* declared with := inside the if block, a new local variable.
MediaCmdAfterLate(started) == dMediaCmd

\* initDumpingLate(): ffmpegCommand ends as cmd, dumpMediaCmd.Start as
\* start.
initDumpingLate ==
  \E cmd, start \in CallOutcomes :
    LET started == dFlags.Media /\ cmd = "nil" /\ start = "nil" IN
    /\ dPc = "late"
    /\ dMediaCmd' = MediaCmdAfterLate(started)
    /\ dProc' = IF started THEN "running" ELSE dProc
    /\ dPc' = IF dFlags.Media /\ ~started THEN "failed" ELSE "running"
    /\ dLast' = [NoDumpCall EXCEPT !.Op = "initDumpingLate"]
    /\ UNCHANGED <<dFlags, dAudioFile, dVideoFile, dFrameCount, dTotal,
                   dAudioPos, dPending, dFinish>>
    /\ UNCHANGED nonDumpVars

\* dumpFrameCount after dumpFrameThenReturnTo(screen, to, frames) that found
\* dumping() and frames # 0: it is counted inside the video branch.
FrameCountAfter(frames) ==
  IF dVideoFile # "nil" THEN dFrameCount + frames ELSE dFrameCount

\* dumpFrameThenReturnTo(screen, to, frames): audiowrap.DumpFrame ends as
\* audio.
dumpFrameThenReturnTo ==
  \E frames \in 0 .. MaxFrames, audio \in CallOutcomes :
    LET active == dumping /\ frames # 0
        count == IF active THEN FrameCountAfter(frames) ELSE dFrameCount
        cnt == (count \div dFlags.Divisor) - (dFrameCount \div dFlags.Divisor)
        dumpsAudio == active /\ dAudioFile # "nil"
    IN
    /\ dPc = "running"
    /\ dTotal + frames <= MaxDumpFrames
    /\ dFrameCount' = count
    /\ dPending' = IF active /\ dVideoFile # "nil" /\ cnt > 0
                     THEN dPending + 1 ELSE dPending
    /\ dTotal' = dTotal + frames
    /\ dAudioPos' = IF dumpsAudio THEN count ELSE dAudioPos
    /\ dAudioFile' = IF dumpsAudio /\ audio = "error" THEN "nil"
                     ELSE dAudioFile
    /\ dLast' = [Op |-> "dumpFrameThenReturnTo", Frames |-> frames,
                 Audio |-> dumpsAudio]
    /\ UNCHANGED <<dFlags, dVideoFile, dMediaCmd, dProc, dPc, dFinish>>
    /\ UNCHANGED nonDumpVars

\* The callback given to dumpPixelsRGBA runs: the frame is written and
\* dumpVideoWg.Done() called.
DumpPixelsDone ==
  /\ dPending > 0
  /\ dPending' = dPending - 1
  /\ UNCHANGED <<dFlags, dAudioFile, dVideoFile, dMediaCmd, dProc,
                 dFrameCount, dTotal, dAudioPos, dPc, dFinish, dLast>>
  /\ UNCHANGED nonDumpVars

\* The FFmpeg process ends on its own, well or not.
FfmpegExits ==
  \E status \in {"exited", "failed"} :
    /\ dProc = "running"
    /\ dProc' = status
    /\ UNCHANGED <<dFlags, dAudioFile, dVideoFile, dMediaCmd, dFrameCount,
                   dTotal, dAudioPos, dPending, dPc, dFinish, dLast>>
    /\ UNCHANGED nonDumpVars

\* finishDumping(): the Close calls end as audio and video.  Wait returns
\* once the process has ended, with an error when it failed.
finishDumping ==
  \E audio, video \in CallOutcomes :
    LET closeErr == \/ dAudioFile # "nil" /\ audio = "error"
                    \/ dVideoFile # "nil" /\ video = "error"
        waits == dumping /\ ~closeErr /\ dMediaCmd # "nil"
    IN
    /\ dPc = "running"
    /\ dVideoFile # "nil" => dPending = 0
    /\ waits => dProc \in {"exited", "failed"}
    /\ dAudioFile' = "nil"
    /\ dVideoFile' = "nil"
    /\ dFinish' = [Returned |-> TRUE,
                   Err |-> IF dumping /\ (closeErr \/ (waits /\ dProc = "failed"))
                             THEN "error" ELSE "nil",
                   Waited |-> waits]
    /\ dPc' = "done"
    /\ dLast' = [NoDumpCall EXCEPT !.Op = "finishDumping"]
    /\ UNCHANGED <<dFlags, dMediaCmd, dProc, dFrameCount, dTotal, dAudioPos,
                   dPending>>
    /\ UNCHANGED nonDumpVars

DumpInit ==
  /\ dFlags \in DumpFlags
  /\ dAudioFile = "nil"
  /\ dVideoFile = "nil"
  /\ dMediaCmd = "nil"
  /\ dProc = "none"
  /\ dFrameCount = 0
  /\ dTotal = 0
  /\ dAudioPos = 0
  /\ dPending = 0
  /\ dPc = "early"
  /\ dFinish = NoFinish
  /\ dLast = NoDumpCall

DumpNext ==
  \/ initDumpingEarly
  \/ initDumpingLate
  \/ dumpFrameThenReturnTo
  \/ DumpPixelsDone
  \/ FfmpegExits
  \/ finishDumping

DumpIdle ==
  /\ dFlags = [Media |-> FALSE, Audio |-> FALSE, Video |-> FALSE,
               Divisor |-> 1]
  /\ dAudioFile = "nil"
  /\ dVideoFile = "nil"
  /\ dMediaCmd = "nil"
  /\ dProc = "none"
  /\ dFrameCount = 0
  /\ dTotal = 0
  /\ dAudioPos = 0
  /\ dPending = 0
  /\ dPc = "idle"
  /\ dFinish = NoFinish
  /\ dLast = NoDumpCall

-----------------------------------------------------------------------------
(* package palette: Palette.ToLUT and its goroutines.                      *)

\* The bounds of the image given to ToLUT, the protected colours of the
\* palette, and the most probes of pix followed in the searches for the
\* Bayer scales, all searches together.
LutImageWidth == 4
LutImageHeight == 2
Protected == 2
MaxProbes == 2

\* int(math.Cbrt(n))
Cbrt(n) == CHOOSE k \in 0 .. n : k * k * k <= n /\ n < (k + 1) * (k + 1) * (k + 1)

\* The loop that shrinks lutSize until the rows fit the image.
RECURSIVE FitLutSize(_, _, _)
FitLutSize(w, h, size) ==
  LET fitPerRow == w \div size
      rows == (size + fitPerRow - 1) \div fitPerRow
  IN IF rows * size <= h THEN size ELSE FitLutSize(w, h, size - 1)

lutSize ==
  FitLutSize(LutImageWidth, LutImageHeight,
             Cbrt(LutImageWidth * LutImageHeight))

perRow == LutImageWidth \div lutSize

widthNeeded == perRow * lutSize

heightNeeded == ((lutSize + perRow - 1) \div perRow) * lutSize

\* An element of pix and an element of scales.
Pix(n) == [Arr |-> "pix", Idx |-> n]
Scale(n) == [Arr |-> "scales", Idx |-> n]

\* o := (y*widthNeeded + x) * 4
PixOffset(y, x) == (y * widthNeeded + x) * 4

\* wg.Wait() that returns without joining anything.
WaitReturnsAtOnce(gs) == TRUE

\* wg.Wait() returns once every goroutine started has called wg.Done().
WaitReturns(gs) == \A g \in gs : xGo[g].State # "running"

\* The goroutines: those of the first loop over y, of the loop over the
\* protected colours, and of the last loop over y.
Goroutines ==
  ({1, 3} \X (0 .. heightNeeded - 1)) \cup ({2} \X (0 .. Protected - 1))

GoroutinesOf(phase) == {g \in Goroutines : g[1] = phase}

NotStarted == [State |-> "idle", X |-> 0, Writes |-> {}, Reads |-> {}]

\* The probes of pix made so far by the searches for the Bayer scales.
ProbesMade ==
  Cardinality({p \in GoroutinesOf(2) \X (1 .. MaxProbes) :
                 p[2] <= xGo[p[1]].X})

NoLutCall == [Op |-> "none", Unjoined |-> FALSE]

\* The goroutines started and not yet joined by a wg.Wait().
Unjoined == {g \in Goroutines : xGo[g].State \in {"running", "done"}}

\* go func(...) {...}(n) in the loop of the given phase, after wg.Add(1).
Go(phase) ==
  LET n == Cardinality({g \in GoroutinesOf(phase) : xGo[g].State # "idle"})
  IN
  /\ xPc = <<"go", phase>>
  /\ <<phase, n>> \in Goroutines
  /\ xGo' = [xGo EXCEPT ![<<phase, n>>].State = "running"]
  /\ xLast' = [Op |-> "go", Unjoined |-> Unjoined # {}]
  /\ UNCHANGED <<xPc, xAlpha>>
  /\ UNCHANGED nonLutVars

\* wg.Wait() after the loop of the given phase.
Wait(phase) ==
  /\ xPc = <<"go", phase>>
  /\ \A g \in GoroutinesOf(phase) : xGo[g].State # "idle"
  /\ WaitReturns(GoroutinesOf(phase))
  /\ xGo' = [g \in Goroutines |->
               IF xGo[g].State = "done"
                 THEN [xGo[g] EXCEPT !.State = "joined", !.Writes = {},
                                     !.Reads = {}]
                 ELSE xGo[g]]
  /\ xPc' = CASE phase = 1 -> <<"go", 2>>
              [] phase = 2 -> <<"alpha", 0>>
              [] OTHER -> <<"replace", 0>>
  /\ xLast' = [Op |-> "Wait", Unjoined |-> FALSE]
  /\ UNCHANGED xAlpha
  /\ UNCHANGED nonLutVars

\* One turn of the loop over x of a goroutine of the first loop: the four
\* bytes of the pixel are written.
Nearest(y) ==
  LET g == <<1, y>>
      o == PixOffset(y, xGo[g].X)
  IN
  /\ g \in Goroutines
  /\ xGo[g].State = "running"
  /\ xGo[g].X < widthNeeded
  /\ xGo' = [xGo EXCEPT ![g].X = @ + 1,
                        ![g].Writes = @ \cup {Pix(o), Pix(o + 1), Pix(o + 2),
                                              Pix(o + 3)}]
  /\ UNCHANGED <<xPc, xAlpha, xLast>>
  /\ UNCHANGED nonLutVars

\* One probe of the search for the Bayer scale of the protected colour i:
\* the pixel read is that of the colour moved by the scale, any pixel.
Probe(i) ==
  \E y \in 0 .. heightNeeded - 1, x \in 0 .. widthNeeded - 1 :
    LET g == <<2, i>>
        o == PixOffset(y, x)
    IN
    /\ g \in Goroutines
    /\ xGo[g].State = "running"
    /\ ProbesMade < MaxProbes
    /\ xGo' = [xGo EXCEPT ![g].X = @ + 1,
                          ![g].Reads = @ \cup {Pix(o), Pix(o + 1), Pix(o + 2)}]
    /\ UNCHANGED <<xPc, xAlpha, xLast>>
    /\ UNCHANGED nonLutVars

\* The search of the protected colour i ends: scales[i] = scale; wg.Done().
FoundScale(i) ==
  LET g == <<2, i>> IN
  /\ g \in Goroutines
  /\ xGo[g].State = "running"
  /\ xGo' = [xGo EXCEPT ![g].State = "done",
                        ![g].Writes = @ \cup {Scale(i)}]
  /\ UNCHANGED <<xPc, xAlpha, xLast>>
  /\ UNCHANGED nonLutVars

\* One turn of the loop over the protected colours in ToLUT itself: the
\* alpha of the pixel of the colour, any pixel, is set to its scale.
Alpha ==
  \E y \in 0 .. heightNeeded - 1, x \in 0 .. widthNeeded - 1 :
    /\ xPc[1] = "alpha"
    /\ xPc[2] < Protected
    /\ xAlpha' = xAlpha \cup {PixOffset(y, x) + 3}
    /\ xPc' = IF xPc[2] + 1 < Protected THEN <<"alpha", xPc[2] + 1>>
              ELSE <<"go", 3>>
    /\ xLast' = [Op |-> "alpha", Unjoined |-> Unjoined # {}]
    /\ UNCHANGED xGo
    /\ UNCHANGED nonLutVars

\* One turn of the loop over x of a goroutine of the last loop: the alpha
\* of the pixel is read and, where it is still 255, the scales are read and
\* the alpha written.
Interpolate(y) ==
  LET g == <<3, y>>
      o == PixOffset(y, xGo[g].X)
      reads == {Scale(i) : i \in 0 .. Protected - 1}
  IN
  /\ g \in Goroutines
  /\ xGo[g].State = "running"
  /\ xGo[g].X < widthNeeded
  /\ xGo' = IF o + 3 \in xAlpha
              THEN [xGo EXCEPT ![g].X = @ + 1,
                               ![g].Reads = @ \cup {Pix(o + 3)}]
              ELSE [xGo EXCEPT ![g].X = @ + 1,
                               ![g].Reads = @ \cup {Pix(o + 3)} \cup reads,
                               ![g].Writes = @ \cup {Pix(o + 3)}]
  /\ UNCHANGED <<xPc, xAlpha, xLast>>
  /\ UNCHANGED nonLutVars

\* wg.Done() of a goroutine of the first or the last loop.
Done(phase, y) ==
  LET g == <<phase, y>> IN
  /\ g \in Goroutines
  /\ xGo[g].State = "running"
  /\ xGo[g].X = widthNeeded
  /\ xGo' = [xGo EXCEPT ![g].State = "done"]
  /\ UNCHANGED <<xPc, xAlpha, xLast>>
  /\ UNCHANGED nonLutVars

\* img.SubImage(rect).(*ebiten.Image).ReplacePixels(pix)
ReplacePixels ==
  /\ xPc[1] = "replace"
  /\ xPc' = <<"done", 0>>
  /\ xLast' = [Op |-> "ReplacePixels", Unjoined |-> Unjoined # {}]
  /\ UNCHANGED <<xGo, xAlpha>>
  /\ UNCHANGED nonLutVars

LutInit ==
  /\ xGo = [g \in Goroutines |-> NotStarted]
  /\ xPc = <<"go", 1>>
  /\ xAlpha = {}
  /\ xLast = NoLutCall

LutNext ==
  \/ \E phase \in 1 .. 3 : Go(phase)
  \/ \E phase \in 1 .. 3 : Wait(phase)
  \/ \E y \in 0 .. heightNeeded - 1 : Nearest(y)
  \/ \E i \in 0 .. Protected - 1 : Probe(i)
  \/ \E i \in 0 .. Protected - 1 : FoundScale(i)
  \/ Alpha
  \/ \E y \in 0 .. heightNeeded - 1 : Interpolate(y)
  \/ \E phase \in {1, 3}, y \in 0 .. heightNeeded - 1 : Done(phase, y)
  \/ ReplacePixels

LutIdle ==
  /\ xGo = [g \in Goroutines |-> NotStarted]
  /\ xPc = <<"idle", 0>>
  /\ xAlpha = {}
  /\ xLast = NoLutCall

-----------------------------------------------------------------------------
(* Specifications: one per part of the program.                            *)

InitTrace ==
  TraceInit /\ LoadIdle /\ OrientIdle /\ SaveIdle /\ WorldIdle /\ ExpandIdle
    /\ FlagIdle /\ MobileIdle
    /\ MenuIdle
    /\ ResetIdle
    /\ InputIdle
    /\ PlayerIdle
    /\ BlockIdle
    /\ SpriteIdle
    /\ CheckpointIdle
    /\ DumpIdle
    /\ LutIdle

SpecTrace == InitTrace /\ [][TraceNext]_vars

InitLoad ==
  LoadInit /\ TraceIdle /\ OrientIdle /\ SaveIdle /\ WorldIdle /\ ExpandIdle
    /\ FlagIdle /\ MobileIdle
    /\ MenuIdle
    /\ ResetIdle
    /\ InputIdle
    /\ PlayerIdle
    /\ BlockIdle
    /\ SpriteIdle
    /\ CheckpointIdle
    /\ DumpIdle
    /\ LutIdle

SpecLoad == InitLoad /\ [][LoadNext]_vars

InitOrient ==
  OrientInit /\ TraceIdle /\ LoadIdle /\ SaveIdle /\ WorldIdle /\ ExpandIdle
    /\ FlagIdle /\ MobileIdle
    /\ MenuIdle
    /\ ResetIdle
    /\ InputIdle
    /\ PlayerIdle
    /\ BlockIdle
    /\ SpriteIdle
    /\ CheckpointIdle
    /\ DumpIdle
    /\ LutIdle

SpecOrient == InitOrient /\ [][OrientNext]_vars

InitSave ==
  SaveInit /\ TraceIdle /\ LoadIdle /\ OrientIdle /\ WorldIdle /\ ExpandIdle
    /\ FlagIdle /\ MobileIdle
    /\ MenuIdle
    /\ ResetIdle
    /\ InputIdle
    /\ PlayerIdle
    /\ BlockIdle
    /\ SpriteIdle
    /\ CheckpointIdle
    /\ DumpIdle
    /\ LutIdle

SpecSave == InitSave /\ [][SaveNext]_vars

InitWorld ==
  WorldInit /\ TraceIdle /\ LoadIdle /\ OrientIdle /\ SaveIdle /\ ExpandIdle
    /\ FlagIdle /\ MobileIdle
    /\ MenuIdle
    /\ ResetIdle
    /\ InputIdle
    /\ PlayerIdle
    /\ BlockIdle
    /\ SpriteIdle
    /\ CheckpointIdle
    /\ DumpIdle
    /\ LutIdle

SpecWorld == InitWorld /\ [][WorldNext]_vars

InitExpand ==
  ExpandInit /\ TraceIdle /\ LoadIdle /\ OrientIdle /\ SaveIdle /\ WorldIdle
    /\ FlagIdle /\ MobileIdle
    /\ MenuIdle
    /\ ResetIdle
    /\ InputIdle
    /\ PlayerIdle
    /\ BlockIdle
    /\ SpriteIdle
    /\ CheckpointIdle
    /\ DumpIdle
    /\ LutIdle

SpecExpand == InitExpand /\ [][ExpandNext]_vars

InitFlag ==
  FlagInit /\ TraceIdle /\ LoadIdle /\ OrientIdle /\ SaveIdle /\ WorldIdle
    /\ ExpandIdle /\ MobileIdle
    /\ MenuIdle
    /\ ResetIdle
    /\ InputIdle
    /\ PlayerIdle
    /\ BlockIdle
    /\ SpriteIdle
    /\ CheckpointIdle
    /\ DumpIdle
    /\ LutIdle

SpecFlag == InitFlag /\ [][FlagNext]_vars

InitMobile ==
  MobileInit /\ TraceIdle /\ LoadIdle /\ OrientIdle /\ SaveIdle /\ WorldIdle
    /\ ExpandIdle /\ FlagIdle
    /\ MenuIdle
    /\ ResetIdle
    /\ InputIdle
    /\ PlayerIdle
    /\ BlockIdle
    /\ SpriteIdle
    /\ CheckpointIdle
    /\ DumpIdle
    /\ LutIdle

SpecMobile == InitMobile /\ [][MobileNext]_vars

InitMenu ==
  MenuInit /\ TraceIdle /\ LoadIdle /\ OrientIdle /\ SaveIdle
    /\ WorldIdle /\ ExpandIdle /\ FlagIdle /\ MobileIdle
    /\ ResetIdle
    /\ InputIdle
    /\ PlayerIdle
    /\ BlockIdle
    /\ SpriteIdle
    /\ CheckpointIdle
    /\ DumpIdle
    /\ LutIdle

SpecMenu == InitMenu /\ [][MenuNext]_vars

InitReset ==
  ResetInit /\ TraceIdle /\ LoadIdle /\ OrientIdle /\ SaveIdle
    /\ WorldIdle /\ ExpandIdle /\ FlagIdle /\ MobileIdle /\ MenuIdle
    /\ InputIdle
    /\ PlayerIdle
    /\ BlockIdle
    /\ SpriteIdle
    /\ CheckpointIdle
    /\ DumpIdle
    /\ LutIdle

SpecReset == InitReset /\ [][ResetNext]_vars

InitInput ==
  InputInit /\ TraceIdle /\ LoadIdle /\ OrientIdle /\ SaveIdle
    /\ WorldIdle /\ ExpandIdle /\ FlagIdle /\ MobileIdle /\ MenuIdle
    /\ ResetIdle
    /\ PlayerIdle
    /\ BlockIdle
    /\ SpriteIdle
    /\ CheckpointIdle
    /\ DumpIdle
    /\ LutIdle

SpecInput == InitInput /\ [][InputNext]_vars

InitPlayer ==
  PlayerInit /\ TraceIdle /\ LoadIdle /\ OrientIdle /\ SaveIdle
    /\ WorldIdle /\ ExpandIdle /\ FlagIdle /\ MobileIdle /\ MenuIdle
    /\ ResetIdle /\ InputIdle
    /\ BlockIdle
    /\ SpriteIdle
    /\ CheckpointIdle
    /\ DumpIdle
    /\ LutIdle

SpecPlayer == InitPlayer /\ [][PlayerNext]_vars

InitBlock ==
  BlockInit /\ TraceIdle /\ LoadIdle /\ OrientIdle /\ SaveIdle
    /\ WorldIdle /\ ExpandIdle /\ FlagIdle /\ MobileIdle /\ MenuIdle
    /\ ResetIdle /\ InputIdle /\ PlayerIdle
    /\ SpriteIdle
    /\ CheckpointIdle
    /\ DumpIdle
    /\ LutIdle

SpecBlock == InitBlock /\ [][BlockNext]_vars

InitSprite ==
  SpriteInit /\ TraceIdle /\ LoadIdle /\ OrientIdle /\ SaveIdle
    /\ WorldIdle /\ ExpandIdle /\ FlagIdle /\ MobileIdle /\ MenuIdle
    /\ ResetIdle /\ InputIdle /\ PlayerIdle /\ BlockIdle
    /\ CheckpointIdle
    /\ DumpIdle
    /\ LutIdle

SpecSprite == InitSprite /\ [][SpriteNext]_vars

InitCheckpoint ==
  CheckpointInit /\ TraceIdle /\ LoadIdle /\ OrientIdle
    /\ SaveIdle /\ WorldIdle /\ ExpandIdle /\ FlagIdle /\ MobileIdle
    /\ MenuIdle /\ ResetIdle /\ InputIdle /\ PlayerIdle /\ BlockIdle
    /\ SpriteIdle
    /\ DumpIdle
    /\ LutIdle

SpecCheckpoint == InitCheckpoint /\ [][CheckpointNext]_vars

InitDump ==
  DumpInit /\ TraceIdle /\ LoadIdle /\ OrientIdle /\ SaveIdle
    /\ WorldIdle /\ ExpandIdle /\ FlagIdle /\ MobileIdle /\ MenuIdle
    /\ ResetIdle /\ InputIdle /\ PlayerIdle /\ BlockIdle /\ SpriteIdle
    /\ CheckpointIdle
    /\ LutIdle

SpecDump == InitDump /\ [][DumpNext]_vars

InitLut ==
  LutInit /\ TraceIdle /\ LoadIdle /\ OrientIdle /\ SaveIdle
    /\ WorldIdle /\ ExpandIdle /\ FlagIdle /\ MobileIdle /\ MenuIdle
    /\ ResetIdle /\ InputIdle /\ PlayerIdle /\ BlockIdle /\ SpriteIdle
    /\ CheckpointIdle /\ DumpIdle

SpecLut == InitLut /\ [][LutNext]_vars

-----------------------------------------------------------------------------
(* Properties of traceBox.                                                 *)

\* Travel of a result whose EndPos is a position of the box origin.
Travel(endPos) == Norm1(PosDelta(endPos, tFrom.Origin))

\* Travel of the line trace sampled at offset d, shifted back by d.
LineTravel(d) == Travel(PosSub(tLines[d].EndPos, d))

MinLineTravel(d) == \A e \in DOMAIN tLines : LineTravel(d) <= LineTravel(e)

\* C1: the EndPos traceBox returns is no farther (L1) from the origin of
\* the box than the shifted-back end of any line trace of the bundle.
C1_MinimumTravel ==
  \A r \in DOMAIN tReturned :
    \A d \in DOMAIN tLines : Travel(tReturned[r].EndPos) <= LineTravel(d)

\* A call has returned although some line trace of its bundle went farther
\* than another one.
C1_Witness ==
  /\ tPc = "done"
  /\ \E d, e \in DOMAIN tLines : LineTravel(d) < LineTravel(e)
  /\ \E d \in DOMAIN tLines : Travel(tReturned[1].EndPos) < LineTravel(d)

\* C2: when a trace that hit an entity and a trace that hit none both end
\* at the minimal travel, the result carries an entity and ends at that
\* travel.
C2_EntityWinsTie ==
  \A r \in DOMAIN tReturned :
    \A d, e \in DOMAIN tLines :
      (/\ MinLineTravel(d) /\ MinLineTravel(e)
       /\ tLines[d].HitEntity # NoEntity
       /\ tLines[e].HitEntity = NoEntity)
      => (/\ tReturned[r].HitEntity # NoEntity
          /\ Travel(tReturned[r].EndPos) = LineTravel(d))

\* A call has returned on a bundle with such a tie.
C2_Witness ==
  /\ tPc = "done"
  /\ \E d, e \in DOMAIN tLines :
       /\ MinLineTravel(d) /\ MinLineTravel(e)
       /\ tLines[d].HitEntity # NoEntity
       /\ tLines[e].HitEntity = NoEntity

\* C3: two evaluations of the same call in the same world return the same
\* TraceResult, whatever the order in which the traces are visited.
C3_Deterministic ==
  tPc = "done" => tReturned[1] = tReturned[2]

-----------------------------------------------------------------------------
(* Properties of level.Load.                                               *)

\* The WarpZone objects of the map that carry the name n.
ZoneCount(n) ==
  Cardinality({k \in DOMAIN lObjects :
                 lObjects[k].Type = "WarpZone" /\ lObjects[k].Name = n})

ZoneNames == {lObjects[k].Name : k \in {j \in DOMAIN lObjects : lObjects[j].Type = "WarpZone"}}

\* Extent of a raw warp zone, in tiles.
ZoneSize(z) == Delta(z.EndTile.X - z.StartTile.X + 1, z.EndTile.Y - z.StartTile.Y + 1)

\* The pair transform maps the rectangle of from onto that of to, cell for cell.
Congruent(from, to) ==
  LET image == Apply(WarpTransform(from, to), ZoneSize(from))
  IN ZoneSize(to) = Delta(Abs(image.DX), Abs(image.DY))

\* The warp edges stored in the tile at pos that carry the name n.
EdgesAt(pos, n) ==
  LET wz == lTiles[TileIndex(pos)].WarpZones
  IN {wz[k] : k \in {j \in DOMAIN wz : wz[j].Name = n}}

ZoneCells(z) ==
  LET cells == CellsOf(z.StartTile, z.EndTile)
  IN {cells[k] : k \in DOMAIN cells}

\* e2 undoes e: it leads from where e arrives back to where e was entered.
InverseEdge(e, e2) ==
  /\ e2.Name = e.Name
  /\ e2.PrevTile = e.ToTile
  /\ e2.ToTile = e.PrevTile
  /\ e2.Transform = Inverse(e.Transform)

\* C4: in a returned level, every edge of a leg whose rectangles are
\* congruent under the pair transform has a counterpart of the same name in
\* the paired rectangle that leads back with the inverse transform, so that
\* both crossings compose to the identity.
C4_WarpRoundTrip ==
  lResult = "level" =>
    \A n \in DOMAIN lWarpZones : \A a \in 1..2 :
      LET from == lWarpZones[n][a]
          to == lWarpZones[n][3 - a]
      IN Congruent(from, to) =>
           \A c \in ZoneCells(from) : \A e \in EdgesAt(c, n) :
             \E c2 \in ZoneCells(to) : \E e2 \in EdgesAt(c2, n) :
               /\ InverseEdge(e, e2)
               /\ Concat(e2.Transform, e.Transform) = Identity

\* A level is returned whose pair "A" is congruent although its two
\* rectangles differ in shape (the transform swaps the axes).
C4_Witness ==
  /\ lResult = "level"
  /\ "A" \in DOMAIN lWarpZones
  /\ Congruent(lWarpZones["A"][1], lWarpZones["A"][2])
  /\ ZoneSize(lWarpZones["A"][1]) # ZoneSize(lWarpZones["A"][2])
  /\ EdgesAt(AnchorA[1], "A") # {}

\* C5: Load returns a level only if the rectangles of every pair map onto
\* each other cell for cell, and every edge of a returned level has an
\* exact inverse edge.
C5_GeometryValidated ==
  lResult = "level" =>
    /\ \A n \in DOMAIN lWarpZones :
         Congruent(lWarpZones[n][1], lWarpZones[n][2])
    /\ \A i \in DOMAIN lTiles : \A k \in DOMAIN lTiles[i].WarpZones :
         \E j \in DOMAIN lTiles : \E k2 \in DOMAIN lTiles[j].WarpZones :
           InverseEdge(lTiles[i].WarpZones[k], lTiles[j].WarpZones[k2])

\* C6: when Load has ended and some warp zone name is carried by a number
\* of objects other than two, it has returned an error; when every name is
\* carried by two objects, the pairing check raises no error.
C6_UnpairedIsError ==
  lPc = "done" =>
    /\ (\E n \in ZoneNames : ZoneCount(n) # 2) => lResult = "error"
    /\ (\A n \in ZoneNames : ZoneCount(n) = 2) => lResult # "error"

\* C7: the edges of the leg from -> to carry to * FlipX * from^-1, those of
\* the reverse leg from * FlipX * to^-1, and the two compose to Identity.
C7_LegTransforms ==
  lResult = "level" =>
    \A n \in DOMAIN lWarpZones : \A a \in 1..2 :
      LET from == lWarpZones[n][a]
          to == lWarpZones[n][3 - a]
      IN \A c \in ZoneCells(from) : \A e \in EdgesAt(c, n) :
           /\ e.Transform =
                Concat(Concat(to.Orientation, FlipX), Inverse(from.Orientation))
           /\ \A c2 \in ZoneCells(to) : \A e2 \in EdgesAt(c2, n) :
                /\ e2.Transform =
                     Concat(Concat(from.Orientation, FlipX), Inverse(to.Orientation))
                /\ Concat(e.Transform, e2.Transform) = Identity

\* A level is returned for a pair whose orientations are a diagonal flip
\* and a rotation, neither its own partner's inverse.
C7_Witness ==
  /\ lResult = "level"
  /\ "A" \in DOMAIN lWarpZones
  /\ lWarpZones["A"][1].Orientation = FlipD
  /\ lWarpZones["A"][2].Orientation = [Right |-> South, Down |-> West]
  /\ EdgesAt(AnchorA[1], "A") # {}
  /\ EdgesAt(AnchorA[2], "A") # {}

\* The map of the scenario: two warp zones "A", one on tile (5,5) with the
\* identity orientation, one on tile (10,5) rotated by 180 degrees.
C8_Scenario ==
  /\ lObjects = <<Object("WarpZone", "A", Pos(5, 5), Delta(1, 1), Identity),
                  Object("WarpZone", "A", Pos(10, 5), Delta(1, 1), Rotate180)>>
  /\ lResult = "level"

\* C8 as claimed: the edge of tile (5,5), entered moving east, leads to
\* tile (10,5) and turns east into west.
C8_AsClaimed ==
  C8_Scenario =>
    \E e \in EdgesAt(Pos(5, 5), "A") :
      /\ e.PrevTile = Pos(4, 5)
      /\ e.ToTile = Pos(10, 5)
      /\ Apply(e.Transform, East) = West

\* C8 as amended: tile (5,5) holds one edge; it is entered moving east
\* (from tile (4,5)), leads to tile (11,5), the tile east of the paired
\* zone, and its transform, the flip of Y, leaves east east.
C8_Amended ==
  C8_Scenario =>
    /\ Cardinality(EdgesAt(Pos(5, 5), "A")) = 1
    /\ \A e \in EdgesAt(Pos(5, 5), "A") :
         /\ e.PrevTile = Pos(4, 5)
         /\ e.ToTile = Pos(11, 5)
         /\ e.Transform = FlipY
         /\ Apply(e.Transform, East) = East

\* The level of the scenario has been loaded.
C8_Witness == C8_Scenario /\ EdgesAt(Pos(5, 5), "A") # {}

-----------------------------------------------------------------------------
(* Properties of m.Orientation.                                            *)

\* C9: there are eight orientations and Concat of two of them is one of
\* them (so is the orientation Load gives a tile from its flip flags);
\* Concat is associative; Identity is neutral on both sides; an orientation
\* composed with its Inverse is Identity; Identity.Apply(d) is d.
C9_OrientationAlgebra ==
  oPc = "done" =>
    /\ Cardinality(AllOrientations) = 8
    /\ oOut.ab \in AllOrientations
    /\ oOut.tile \in AllOrientations
    /\ oOut.ab_c = oOut.a_bc
    /\ oOut.a_id = oArgs.a
    /\ oOut.id_a = oArgs.a
    /\ oOut.a_inv = Identity
    /\ oOut.id_d = oArgs.d

\* A quarter turn (not its own inverse) has been composed with two
\* orientations that do not commute, and a delta that is not zero applied.
C9_Witness ==
  /\ oPc = "done"
  /\ Concat(oArgs.a, oArgs.a) # Identity
  /\ Concat(oArgs.b, oArgs.c) # Concat(oArgs.c, oArgs.b)
  /\ oArgs.d # Delta(0, 0)
  /\ oArgs.flips.Diagonally

-----------------------------------------------------------------------------
(* Properties of Level.LoadGame.                                           *)

\* The save of the last LoadGame call had a checksum that is not that of
\* its data.
CallTampered == HashData(sCall.Data) # sCall.Hash

CallVersionDiffers == sCall.Data.LevelVersion # sCall.Level.SaveGameVersion

CallLevelHashDiffers == sCall.Data.LevelHash # sCall.Level.Hash

\* Every PersistentState is what the save of the last call holds for its
\* entity (empty when it holds nothing).
CallLoaded ==
  \A id \in EntityIDs :
    sState[id] = IF id \in DOMAIN sCall.Data.State
                   THEN sCall.Data.State[id] ELSE EmptyState

\* C10: LoadGame returns an error exactly when the checksum of the save is
\* not that of its data or the save's LevelVersion is not the level's
\* SaveGameVersion; when only the LevelHash differs it returns no error and
\* a save read back from storage has been loaded into the entities.
C10_LoadGameErrors ==
  sCall # NoSave =>
    /\ (sErr # "nil") <=> (CallTampered \/ CallVersionDiffers)
    /\ (CallLevelHashDiffers /\ ~CallTampered /\ ~CallVersionDiffers) =>
         /\ sErr = "nil"
         /\ sCall.Stored => CallLoaded

\* A stored save of another level hash, holding state, has been loaded.
C10_Witness ==
  /\ sCall # NoSave
  /\ sCall.Stored
  /\ CallLevelHashDiffers
  /\ sErr = "nil"
  /\ \E id \in EntityIDs : sState[id] # EmptyState

-----------------------------------------------------------------------------
(* Properties of Load: tiles outside the grid.                             *)

\* pos is no tile of the layer.
OutsideGrid(pos) ==
  \/ pos.X \notin 0..(LevelWidth - 1)
  \/ pos.Y \notin 0..(LevelHeight - 1)

\* Some object's rectangle covers a tile outside the grid, or some edge of
\* a pair of warp zones leads to one.
CoversOutside ==
  \/ \E k \in DOMAIN lObjects :
       LET cells == CellsOf(StartTile(lObjects[k].Rect), EndTile(lObjects[k].Rect))
       IN \E c \in DOMAIN cells : OutsideGrid(cells[c])
  \/ \E n \in DOMAIN lWarpZones :
       /\ Len(lWarpZones[n]) = 2
       /\ LET steps == PairSteps(n, lWarpZones[n])
          IN \E k \in DOMAIN steps : OutsideGrid(steps[k].Edge.ToTile)

\* C12: when an entity's or warp zone's rectangle, or a warp destination,
\* covers a tile outside the grid, Load ends by returning an error: it
\* neither returns a level nor panics.
C12_OutOfBoundsIsError ==
  (lPc = "done" /\ lResult # "none" /\ CoversOutside) => lResult = "error"

-----------------------------------------------------------------------------
(* Properties of traceBox: where the line traces start.                    *)

\* The offset d lies on an edge of the box from that faces the travel
\* from from.Origin to to.
OnLeadingEdge(from, to, d) ==
  LET delta == PosDelta(to, from.Origin)
  IN \/ delta.DX < 0 /\ d.DX = 0
     \/ delta.DX > 0 /\ d.DX = from.Size.DX - 1
     \/ delta.DY < 0 /\ d.DY = 0
     \/ delta.DY > 0 /\ d.DY = from.Size.DY - 1

\* C13: every line trace traceBox issues starts on an edge of the box that
\* faces the direction of travel.
C13_LeadingEdgesOnly ==
  tPc = "loop" => \A d \in tTodo : OnLeadingEdge(tFrom, tTo, d)

-----------------------------------------------------------------------------
(* Properties of World.Update.                                             *)

\* The tiles marked in the last frame: touched by the sweep, or within the
\* expansion margin of a touched tile.
FrameMarked == Expand(wFrame.Touched, ExpandTiles)

-----------------------------------------------------------------------------
(* Properties of ExpandImage.                                              *)

\* C16: when ExpandImage returns, a pixel is lit exactly when a pixel lit
\* at the call lies within size pixels of it horizontally and vertically;
\* so every pixel lit at the call is still lit.
C16_Dilates ==
  ePc = "done" =>
    /\ \A p \in ImagePixels :
         p \in eOut <=>
           \E q \in eImg : Abs(p.X - q.X) <= eSize /\ Abs(p.Y - q.Y) <= eSize
    /\ eImg \subseteq eOut

-----------------------------------------------------------------------------
(* Properties of package flag.                                             *)

\* The config holds a value for the flag n that the flag accepts.
ConfigHoldsValid(n) ==
  /\ fConfig.Kind = "config"
  /\ n \in DOMAIN fConfig.flags
  /\ ParseValue(FlagDefs[n].Type, fConfig.flags[n]) # "invalid"

\* The flag n holds the value the command line gives it.
HoldsArg(n) == fValue[n] = ParseValue(FlagDefs[n].Type, fArgs[n])

\* The flag n holds the value of the config, also as its default.
HoldsConfig(n) ==
  /\ fValue[n] = ParseValue(FlagDefs[n].Type, fConfig.flags[n])
  /\ fDefValue[n] = fConfig.flags[n]

\* The flag n is as it was declared.
HoldsDefault(n) ==
  /\ fValue[n] = FlagDefs[n].Default
  /\ fDefValue[n] = FlagDefs[n].Default

\* After Parse, with loads telling whether the config is to be loaded:
\* the flags of the command line hold its values; when the config is
\* loaded every other flag with a valid config value holds it and the
\* remaining ones are as declared; when not, every other flag is as
\* declared.
Precedence(loads) ==
  /\ \A n \in DOMAIN fArgs : HoldsArg(n)
  /\ \A n \in FlagNames \ DOMAIN fArgs :
       IF loads /\ ConfigHoldsValid(n) THEN HoldsConfig(n) ELSE HoldsDefault(n)

ToBeSaved ==
  {n \in fActual : ~HasPrefix(n, "debug") /\ ~HasPrefix(n, "dump")}

\* C18: the config Marshal returns holds exactly the flags that have been
\* set and are neither debug_ nor dump_ flags, each with its current value.
C18_MarshalSetFlags ==
  fPc = "marshalled" =>
    /\ DOMAIN fMarshalled = ToBeSaved
    /\ \A n \in ToBeSaved : fMarshalled[n] = fValue[n]

\* Marshal has left out a dump flag that was set, and has saved a flag set
\* through Set and one with "dump_" inside its name.
C18_Witness ==
  /\ fPc = "marshalled"
  /\ "dump_video_fps_divisor" \in fActual
  /\ "cheat_dump_slow_and_good" \in DOMAIN fMarshalled
  /\ fActual \ DOMAIN fArgs # {}

-----------------------------------------------------------------------------
(* Properties of the mobile wrapper.                                       *)

\* C19: no call lets a panic escape; an Update in which game.Update
\* panicked, or that found an error of an earlier Draw, returns an error
\* (the latter without running game.Update); InitEarly is called at most
\* once, before game.Update and game.Draw run; after an Update that
\* returned an error g.running is closed.
C19_NoPanicEscapes ==
  /\ mLast.Result # "panic"
  /\ (mLast.Op = "Update" /\ mLast.Game = "panic") => mLast.Result = "error"
  /\ mInitEarly <= 1
  /\ (mLast.Game # "skipped") => mInitEarly = 1
  /\ (mLast.Op = "Update" /\ mLast.Result = "error") => mRunning = "closed"

-----------------------------------------------------------------------------
(* Properties of SaveGame followed by LoadGame.                            *)

\* C20: LoadGame, given the record as SaveGame returned it and on the
\* level it was taken from, returns no error and leaves every
\* PersistentState as it was at the time of SaveGame.
C20_SnapshotRestored ==
  (/\ sCall # NoSave
   /\ sCall.At # NoSnapshot
   /\ sCall.Data.LevelVersion = sCall.Level.SaveGameVersion
   /\ sCall.Data.LevelHash = sCall.Level.Hash)
    => (sErr = "nil" /\ sState = sCall.At)

-----------------------------------------------------------------------------
(* Properties of menu.Controller.                                          *)

\* C21: the game is paused while a menu is shown.  An UpdateWorld that found
\* a Screen has not called World.Update and returned nil; one that found no
\* Screen has called World.Update exactly once and returned its error.
C21_PausedUnderMenu ==
  cLast.Op = "UpdateWorld" =>
    IF cLast.ScreenBefore # "nil"
      THEN cLast.WorldUpdates = 0 /\ cLast.Err = "nil"
      ELSE cLast.WorldUpdates = 1 /\ cLast.Err = cLast.WorldErr

\* UpdateWorld has run while the main menu was shown.
C21_Witness ==
  /\ cLast.Op = "UpdateWorld"
  /\ cLast.ScreenBefore = "MainScreen"
  /\ cLast.WorldUpdates = 0

\* The operations that return to the game.
ReturnsToGame ==
  {"SwitchToGame", "SwitchToCheckpoint", "InitGame", "SwitchSaveState"}

\* C22: once PaletteChanged has been called, every return to the game
\* through SwitchToGame, SwitchToCheckpoint, InitGame or SwitchSaveState
\* has run a successful initGame; needReloadMap is cleared only by a
\* successful initGame; and a call whose initGame fails returns the error
\* and leaves Screen as it was.
C22_ReloadBeforeResume ==
  [][ /\ (cNeedReloadMap /\ cLast'.Op \in ReturnsToGame /\ cScreen' = "nil"
            /\ cLast'.Err = "nil")
         => cLast'.InitGame = "ok" /\ ~cStale'
      /\ (cNeedReloadMap /\ ~cNeedReloadMap') => cLast'.InitGame = "ok"
      /\ cLast'.InitGame = "failed"
         => cLast'.Err = "error" /\ cScreen' = cScreen ]_vars

\* The palette has changed under a menu, and SwitchToGame has then gone
\* back to the game.
C22_Witness ==
  /\ cLast.Op = "SwitchToGame"
  /\ cLast.ScreenBefore = "MainScreen"
  /\ cLast.InitGame = "ok"
  /\ cScreen = "nil"

-----------------------------------------------------------------------------
(* Properties of menu.ResetScreen.                                         *)

\* C23: Update calls InitGame(resetGame) only when Jump or Action was just
\* hit, the item selected after the cursor movement is ResetGame, and
\* ResetGame was the selected item at the start of each of the last
\* resetFrames Updates; an Update that starts with another item selected
\* sets ResetFrame to zero; and Item stays within 0..ResetCount-1.
C23_ResetNeedsCountdown ==
  /\ rLast.Call = "InitGame(resetGame)"
       => rLast.Hit /\ rItem = ResetGame /\ rRun >= resetFrames
  /\ (rLast # NoResetUpdate /\ rLast.ItemBefore # ResetGame)
       => rResetFrame = 0
  /\ rItem \in 0 .. (ResetCount - 1)

\* Update has called InitGame(resetGame).
C23_Witness == rLast.Call = "InitGame(resetGame)" /\ rLast.Err = "nil"

-----------------------------------------------------------------------------
(* Properties of package input.                                            *)

\* C24: after an update, for every impulse, JustHit holds exactly when a
\* control of the impulse is pressed in that update and Held did not hold
\* before it; so JustHit implies Held, JustHit does not hold after each of
\* two updates in a row, and Held tells whether a control is pressed.
C24_RisingEdge ==
  iLast.Op = "Update" =>
    \A n \in ImpulseNames :
      /\ iState[n].JustHit = (iLast.Pressed[n] /\ ~iLast.Before[n].Held)
      /\ iState[n].JustHit => iState[n].Held
      /\ iLast.PrevOp = "Update"
           => ~(iState[n].JustHit /\ iLast.Before[n].JustHit)
      /\ iState[n].Held = iLast.Pressed[n]

\* Jump was hit in one update and is still held after the next.
C24_Witness ==
  /\ iLast.Op = "Update"
  /\ iLast.PrevOp = "Update"
  /\ iLast.Before["Jump"].JustHit
  /\ iState["Jump"].Held
  /\ ~iState["Jump"].JustHit

-----------------------------------------------------------------------------
(* Properties of game.Player.                                              *)

\* A box trace one pixel downward from the player's position is blocked.
RestsOnSolid == TraceShaft(pY + 1) = pY

\* The jump that has just reached its apex began on the floor and met
\* nothing on its way up.
FreeJumpDone ==
  /\ pJump.Phase = "falling"
  /\ pJump.From = GroundY
  /\ ~pJump.Blocked

\* How far the jump has raised the player.
Rise == pJump.From - pJump.Peak

\* C25: OnGround holds at the end of an Update only if a box trace one pixel
\* downward from the player's position is blocked; a jump starts only in an
\* Update that began with the player resting on something solid, and only
\* when the jump key has been up since the previous jump.
C25_OnGroundIsSupported ==
  pLast # NoPlayerUpdate =>
    /\ pOnGround => RestsOnSolid
    /\ pLast.Started => TraceShaft(pLast.YBefore + 1) = pLast.YBefore
    /\ pLast.Started => ~pLast.JumpingBefore

\* C26: a jump from the floor with the jump key held throughout and nothing
\* in the way raises the player by at least 72 pixels before it starts to
\* fall.
C26_JumpHeight == (FreeJumpDone /\ pJump.Held) => Rise >= 72

\* C27 as claimed: a jump from the floor whose key is up in the Update after
\* the one that started it raises the player by at least 19 pixels when
\* nothing is in the way, and JumpExtraGravity is added only in Updates
\* where the player moves upward and the jump key is not pressed.
C27_AsClaimed ==
  /\ (FreeJumpDone /\ pJump.Cut) => Rise >= 19
  /\ pLast.Extra => (pLast.Rising /\ ~pLast.Jump)

\* C27 amended: the same height, and JumpExtraGravity is added only in
\* Updates where the player moves upward and Jumping is false, which a jump
\* key pressed again in mid-air does not change.
C27_Amended ==
  /\ (FreeJumpDone /\ pJump.Cut) => Rise >= 19
  /\ pLast.Extra => (pLast.Rising /\ ~pJumping /\ ~pLast.Started)

\* A jump from the floor, cut short right after its start, has reached its
\* apex with nothing in the way.
C27_Witness == FreeJumpDone /\ pJump.Cut /\ pLast.Extra

-----------------------------------------------------------------------------
(* Properties of game.QuestionBlock.                                       *)

\* C28: for a spawned QuestionBlock, no Update or Touch takes Used from true
\* to false; Used holds exactly when PersistentState["used"] is "true"; the
\* entity is Solid whenever Used holds; and a Touch changes the block only
\* when it found it unused and strictly above the touching entity.
C28_UsedIsSticky ==
  qPc = "live" =>
    /\ (qLast.Op \in {"Update", "Touch"} /\ qLast.Before.Used) => qUsed
    /\ qUsed = (qPersistent = "true")
    /\ qUsed => qSolid
    /\ (qLast.Op = "Touch" /\ BlockState # qLast.Before)
         => (~qLast.Before.Used /\ qLast.Above)

\* A hidden block that let the player through has been used by a Touch from
\* below.
C28_Witness ==
  /\ qLast.Op = "Touch"
  /\ qKaizo
  /\ ~qLast.Before.Solid
  /\ qUsed
  /\ qSolid

-----------------------------------------------------------------------------
(* Properties of misc.MovingSprite.                                        *)

\* C29: once handleTouch has set Despawning, the sprite fades out over
\* DespawnFadeFrames Updates: after k of them FadeFrame is
\* DespawnFadeFrames - k and Entity.Alpha is Alpha * FadeFrame /
\* DespawnFadeFrames, and World.Despawn is called only in the Update that
\* brings FadeFrame to 0.
C29_FadesOut ==
  vDespawning =>
    /\ vFadeFrame = vDespawnFadeFrames - vSince
    /\ vAlpha = Fraction(vFadeFrame, vDespawnFadeFrames)
    /\ vDespawns > 0 => (vFadeFrame = 0 /\ vSince = vDespawnFadeFrames)

-----------------------------------------------------------------------------
(* Properties of game.Checkpoint.                                          *)

\* C30: an Update changes the player's PersistentState only when the
\* entity's orientation is RequiredOrientation or FlipX.Concat of it and
\* the player's rectangle has a zero delta to the checkpoint's; it then sets
\* last_checkpoint to the name and checkpoint_seen.<name> to "Identity" or
\* "FlipX" accordingly; a message is shown only with such a change; and an
\* Update repeated under the same conditions changes nothing and shows
\* nothing.
C30_CheckpointOnce ==
  kLast.Op = "Update" =>
    /\ kState # kLast.Before =>
         /\ kLast.ZeroDelta
         /\ \/ /\ kLast.Orientation = kRequired
               /\ kState = PlayerState(kName, "Identity")
            \/ /\ kLast.Orientation = Concat(FlipX, kRequired)
               /\ kState = PlayerState(kName, "FlipX")
    /\ kLast.Message => kState # kLast.Before
    /\ kLast.Repeat => (kState = kLast.Before /\ ~kLast.Message)

\* The player has reached the checkpoint x-flipped and a second Update has
\* found everything as the first left it.
C30_Witness ==
  /\ kLast.Op = "Update"
  /\ kLast.Repeat
  /\ kLast.ZeroDelta
  /\ kLast.Orientation = Concat(FlipX, kRequired)
  /\ kState = PlayerState(kName, "FlipX")
  /\ kRequired # Identity

-----------------------------------------------------------------------------
(* Properties of dumping.                                                  *)

\* C31: when initDumpingLate has started FFmpeg, a finishDumping that
\* returns nil has waited for the process to exit, and the process has not
\* failed.
C31_WaitsForFfmpeg ==
  (dFinish.Returned /\ dProc # "none" /\ dFinish.Err = "nil")
    => (dFinish.Waited /\ dProc = "exited")

\* C32: a dumpFrameThenReturnTo with frames > 0 that finds audio dumping
\* active asks audiowrap.DumpFrame to dump up to N / GameTPS seconds, N
\* being the frames of all such calls so far.
C32_AudioFollowsFrames ==
  (dLast.Op = "dumpFrameThenReturnTo" /\ dLast.Audio) => dAudioPos = dTotal

-----------------------------------------------------------------------------
(* Properties of Palette.ToLUT.                                            *)

\* No element written by a goroutine that is not yet joined is written or
\* read by another such goroutine.
RaceFree ==
  \A g1, g2 \in Unjoined :
    g1 # g2 =>
      xGo[g1].Writes \cap (xGo[g2].Writes \cup xGo[g2].Reads) = {}

\* The goroutines of a loop run only once those of the loops before it are
\* joined, and ToLUT itself touches pix only when all are.
PhasesJoined ==
  /\ \A g1, g2 \in Unjoined : g1[1] = g2[1]
  /\ xLast.Op \in {"alpha", "ReplacePixels"} => ~xLast.Unjoined
  /\ xPc[1] \in {"alpha", "replace", "done"} => Unjoined = {}

\* C33: in ToLUT, goroutines that run concurrently never write the same
\* element of pix or scales and never read an element another of them
\* writes, and every loop of goroutines is joined before the next one
\* starts, before ToLUT sets the alphas and before ReplacePixels.
C33_NoDataRace == RaceFree /\ PhasesJoined

\* Two goroutines of the last loop are running, both have written alphas
\* and read the scales, no element in common.
C33_Witness ==
  \E g1, g2 \in GoroutinesOf(3) :
    /\ g1 # g2
    /\ xGo[g1].State = "running" /\ xGo[g2].State = "running"
    /\ xGo[g1].Writes # {} /\ xGo[g2].Writes # {}
    /\ Scale(0) \in xGo[g1].Reads \cap xGo[g2].Reads

====
